---- MODULE Spec2Model ----
(***************************************************************************)
(* Monte Carlo Tree Search over an ensemble of determinized trees          *)
(* (src/src/mcts.rs), played on the toy arithmetic game                    *)
(* (src/src/minigame.rs).                                                  *)
(*                                                                         *)
(* A tree is a sequence of nodes in creation order; node 1 is the root and *)
(* `children` holds the indices of a node's children in push order, so     *)
(* the Vec<TreeNode> order of the source is kept.  An Option<T> is a       *)
(* sequence of length 0 (None) or 1 (Some).  Every use of choose_random    *)
(* is a nondeterministic choice, so iteration, playout and search are      *)
(* set-valued: they yield every outcome some random draw produces.         *)
(*                                                                         *)
(* Rewards of the toy game are -1, 0 and 1, so the f32 fields n and q hold *)
(* small integers exactly.                                                 *)
(***************************************************************************)
EXTENDS Integers, Sequences, FiniteSets, TLC

VARIABLES
    roots,              \* MCTS.roots: Seq of trees, one per ensemble member
    games,              \* MCTS.games: Seq of stored game states
    iterations_per_s,   \* MCTS.iterations_per_s, a rational <<num, den>>
    aborted,            \* TRUE once a panic (unwrap/expect/% 0) was hit
    requested,          \* history: samples asked per member since new/advance
    last,               \* history: the last call, the game state the
                        \* ensemble was built from, and the ensamble_size
                        \* passed to new
    playout_pc,         \* position of a call of playout run step by step
    playout_initial,    \* playout: the state `initial` refers to
    playout_game,       \* playout: the local `game`
    playout_potential_moves,   \* playout: the local `potential_moves`
    playout_moves,      \* history: moves the playout has applied
    twin_a,             \* a TwoFortyEight state
    twin_b,             \* a clone of it that is handed the same actions
    twin_moves,         \* history: the actions handed to both
    frame,              \* a call of search_time run batch by batch: its
                        \* position, arguments and locals, and a history
                        \* of its first and its latest batch
    adv,                \* an Adversarial2048 state
    adv_panic,          \* the assertion or expect that failed on it
    merge_in,           \* a line handed to merge_vec
    merge_out           \* what the two merge_vec functions returned for it

mcts_vars == <<roots, games, iterations_per_s, aborted, requested, last>>

playout_vars == <<playout_pc, playout_initial, playout_game,
                  playout_potential_moves, playout_moves>>

twin_vars == <<twin_a, twin_b, twin_moves>>

time_vars == <<frame>>

board_vars == <<adv, adv_panic, merge_in, merge_out>>

vars == <<roots, games, iterations_per_s, aborted, requested, last,
          playout_pc, playout_initial, playout_game,
          playout_potential_moves, playout_moves,
          twin_a, twin_b, twin_moves, frame,
          adv, adv_panic, merge_in, merge_out>>

-----------------------------------------------------------------------------
(* Bounds of the model *)

\* search is only taken while no root exceeds this many visits
MaxVisits == 12
\* the same, for a single tree built on MiniGame::new
MaxOpeningVisits == 4
\* the same, for a single tree built on one of the DeepSums
MaxDeepVisits == 6
\* the same, for two trees built on one of the DeepSums and for every
\* ensemble of more than two
MaxPairVisits == 4
\* largest n_samples passed to search directly
MaxSamples == 2
\* largest ensemble size
MaxEnsemble == 2
\* most iterations of one search call whose interleavings are enumerated,
\* and most visits of a root such a call may end with
MaxInterleaved == 4

-----------------------------------------------------------------------------
(* Option<T> *)

None == <<>>
Some(x) == <<x>>
IsSome(o) == Len(o) = 1
unwrap(o) == o[1]

-----------------------------------------------------------------------------
(* The toy game, src/src/minigame.rs *)

WINNING_SUM == 11
DRAW_MIN == 3
DRAW_MAX == 6

\* MiniGame::new
MiniGameNew == [sum |-> 0, seed |-> 0]

\* allowed_actions with DRAW_MAX taken as a move of its own
allowed_actions_Inclusive(game) ==
    IF game.sum < WINNING_SUM
    THEN [i \in 1..(DRAW_MAX - DRAW_MIN + 1) |-> DRAW_MIN + i - 1]
    ELSE <<>>

\* Vec<Action> in the order of `for add in DRAW_MIN..DRAW_MAX`
allowed_actions(game) ==
    IF game.sum < WINNING_SUM
    THEN [i \in 1..(DRAW_MAX - DRAW_MIN) |-> DRAW_MIN + i - 1]
    ELSE <<>>

\* reward without the win at WINNING_SUM
reward_NoWin(game) ==
    IF game.sum < WINNING_SUM THEN 0 ELSE -1

reward(game) ==
    IF game.sum < WINNING_SUM THEN 0
    ELSE IF game.sum = WINNING_SUM THEN 1
    ELSE -1

make_move(game, a_move) == [game EXCEPT !.sum = game.sum + a_move]

\* Game::set_rng_seed: the determinization seed handed to the clone
set_rng_seed(game, seed) == [game EXCEPT !.seed = seed]

\* Clone::clone of a game state
clone(game) == game

\* utils::choose_random: every element some draw of idx = r % len selects;
\* the caller checks Len(vec) > 0 first (r % 0 panics)
choose_random(vec) == {vec[i] : i \in 1..Len(vec)}

\* playout: the terminal states random play can reach from `initial`
RECURSIVE playout(_)
playout(initial) ==
    LET game == clone(initial)
        potential_moves == allowed_actions(game)
    IN  IF Len(potential_moves) > 0
        THEN UNION {playout(make_move(game, action)) :
                        action \in choose_random(potential_moves)}
        ELSE {game}

-----------------------------------------------------------------------------
(* The 2048 game, src/src/twofortyeight.rs.  A board is the sequence of    *)
(* its WIDTH * HEIGHT tiles, board[idx + 1] holding the tile at idx.  A   *)
(* tile is a u16: 2*t is taken modulo U16_RANGE, as a release build does,  *)
(* and `overflow` records that a debug build panics there instead.         *)

WIDTH == 4
HEIGHT == 4

Directions == <<"Up", "Down", "Left", "Right">>

\* the number of values of a u16
U16_RANGE == 65536

\* TwoFortyEight::new
TwoFortyEightNew == [score |-> 0, board |-> [idx \in 1..(WIDTH * HEIGHT) |-> 0]]

\* the loop `for t in filtered_vec` of merge_vec
RECURSIVE merge_vec_scan(_, _, _, _, _)
merge_vec_scan(filtered_vec, i, merged, next, points) ==
    IF i > Len(filtered_vec)
    THEN [merged |-> IF next # 0 THEN Append(merged, next) ELSE merged,
          points |-> points, overflow |-> FALSE]
    ELSE LET t == filtered_vec[i]
         IN  IF t = next
             THEN LET rest == merge_vec_scan(
                                  filtered_vec, i + 1,
                                  Append(merged, (2 * t) % U16_RANGE),
                                  0, points + 2 * t)
                  IN  [rest EXCEPT !.overflow = @ \/ 2 * t >= U16_RANGE]
             ELSE merge_vec_scan(filtered_vec, i + 1,
                                 IF next # 0 THEN Append(merged, next)
                                 ELSE merged,
                                 t, points)

\* TwoFortyEight::merge_vec: (merged, points, changed)
merge_vec(vec) ==
    LET orig_len == Len(vec)
        filtered_vec == SelectSeq(vec, LAMBDA t : t > 0)
        scan == merge_vec_scan(filtered_vec, 1, <<>>, 0, 0)
        merged == scan.merged \o
                  [k \in 1..(orig_len - Len(scan.merged)) |-> 0]
    IN  [merged |-> merged,
         points |-> scan.points,
         changed |-> \E i \in 1..orig_len : vec[i] # merged[i],
         overflow |-> scan.overflow]

\* (start, ostride, istride) of shift_and_merge
Strides(action) ==
    CASE action = "Up" -> <<0, 1, 4>>
      [] action = "Down" -> <<12, 1, -4>>
      [] action = "Left" -> <<0, 4, 1>>
      [] action = "Right" -> <<15, -4, -1>>

RECURSIVE SumPoints(_, _)
SumPoints(parts, outer) ==
    IF outer > Len(parts) THEN 0
    ELSE parts[outer].points + SumPoints(parts, outer + 1)

\* TwoFortyEight::shift_and_merge: (new_board, Option<points>)
shift_and_merge(board, action) ==
    LET start == Strides(action)[1]
        ostride == Strides(action)[2]
        istride == Strides(action)[3]
        idx(outer, inner) == start + outer * ostride + inner * istride
        parts == [o \in 1..HEIGHT |->
                    merge_vec([i \in 1..HEIGHT |->
                                  board[idx(o - 1, i - 1) + 1]])]
        new_board ==
            [k \in 1..(WIDTH * HEIGHT) |->
                LET at == CHOOSE p \in (1..HEIGHT) \X (1..HEIGHT) :
                              idx(p[1] - 1, p[2] - 1) + 1 = k
                IN  parts[at[1]].merged[at[2]]]
        all_points == SumPoints(parts, 1)
        any_changed == \E o \in 1..HEIGHT : parts[o].changed
    IN  [board |-> new_board,
         points |-> IF any_changed THEN Some(all_points) ELSE None]

\* TwoFortyEight::board_full
board_full(game) == \A idx \in 1..(WIDTH * HEIGHT) : game.board[idx] # 0

\* TwoFortyEight::random_spawn: rand::random is the thread's generator, so
\* the loop ends on any empty tile; the assert fails on a full board
random_spawn(game) ==
    IF board_full(game) THEN {[ok |-> FALSE, game |-> game]}
    ELSE {[ok |-> TRUE, game |-> [game EXCEPT !.board[idx] = 2]] :
             idx \in {k \in 1..(WIDTH * HEIGHT) : game.board[k] = 0}}

\* <TwoFortyEight as Game>::allowed_actions
TwoFortyEight_allowed_actions(game) ==
    SelectSeq(Directions,
              LAMBDA a : IsSome(shift_and_merge(game.board, a).points))

\* <TwoFortyEight as Game>::make_move; expect("Illegal move") panics when
\* the action changes nothing
TwoFortyEight_make_move(game, action) ==
    LET shifted == shift_and_merge(game.board, action)
    IN  IF ~IsSome(shifted.points) THEN {[ok |-> FALSE, game |-> game]}
        ELSE random_spawn([score |-> game.score + unwrap(shifted.points),
                           board |-> shifted.board])

\* <TwoFortyEight as Game>::reward
TwoFortyEight_reward(game) == game.score

-----------------------------------------------------------------------------
(* The 2048 game with spawns as moves, src/src/adv2048.rs.  An Action is   *)
(* a record: PlayerAction(direction) or SpawnAction(position), position    *)
(* being the idx of a tile.                                                *)

PlayerAction(direction) == [kind |-> "PlayerAction", direction |-> direction]
SpawnAction(position) == [kind |-> "SpawnAction", position |-> position]

\* Adversarial2048::empty
Adversarial2048_empty ==
    [board |-> [idx \in 1..(WIDTH * HEIGHT) |-> 0], last_action |-> None,
     score |-> 0, moves |-> 0]

\* merge_vec that reports every line as changed
Adversarial2048_merge_vec_AlwaysChanged(vec) ==
    LET orig_len == Len(vec)
        filtered_vec == SelectSeq(vec, LAMBDA t : t > 0)
        scan == merge_vec_scan(filtered_vec, 1, <<>>, 0, 0)
    IN  [merged |-> scan.merged \o
                    [k \in 1..(orig_len - Len(scan.merged)) |-> 0],
         points |-> scan.points,
         changed |-> TRUE,
         overflow |-> scan.overflow]

\* Adversarial2048::merge_vec: (merged, points, changed); its loop is the
\* loop of TwoFortyEight::merge_vec, and `changed` is taken from the
\* length of `merged` before the zeros are pushed
Adversarial2048_merge_vec(vec) ==
    LET orig_len == Len(vec)
        filtered_vec == SelectSeq(vec, LAMBDA t : t > 0)
        scan == merge_vec_scan(filtered_vec, 1, <<>>, 0, 0)
    IN  [merged |-> scan.merged \o
                    [k \in 1..(orig_len - Len(scan.merged)) |-> 0],
         points |-> scan.points,
         changed |-> orig_len # Len(scan.merged),
         overflow |-> scan.overflow]

\* Adversarial2048::shift_and_merge: (new_board, Option<points>)
Adversarial2048_shift_and_merge(board, direction) ==
    LET start == Strides(direction)[1]
        ostride == Strides(direction)[2]
        istride == Strides(direction)[3]
        idx(outer, inner) == start + outer * ostride + inner * istride
        parts == [o \in 1..HEIGHT |->
                    Adversarial2048_merge_vec(
                        [i \in 1..HEIGHT |-> board[idx(o - 1, i - 1) + 1]])]
        new_board ==
            [k \in 1..(WIDTH * HEIGHT) |->
                LET at == CHOOSE p \in (1..HEIGHT) \X (1..HEIGHT) :
                              idx(p[1] - 1, p[2] - 1) + 1 = k
                IN  parts[at[1]].merged[at[2]]]
        all_points == SumPoints(parts, 1)
        any_changed == \E o \in 1..HEIGHT : parts[o].changed
    IN  [board |-> new_board,
         points |-> IF any_changed THEN Some(all_points) ELSE None]

\* Adversarial2048::board_full
Adversarial2048_board_full(game) ==
    \A idx \in 1..(WIDTH * HEIGHT) : game.board[idx] # 0

\* Adversarial2048::allowed_player_actions
allowed_player_actions(game) ==
    SelectSeq(Directions,
              LAMBDA dir :
                  IsSome(Adversarial2048_shift_and_merge(game.board,
                                                         dir).points))

\* the positions idx >= from of the empty tiles, in rising order
RECURSIVE EmptyFrom(_, _)
EmptyFrom(board, from) ==
    IF from >= WIDTH * HEIGHT THEN <<>>
    ELSE IF board[from + 1] = 0
    THEN <<from>> \o EmptyFrom(board, from + 1)
    ELSE EmptyFrom(board, from + 1)

\* Adversarial2048::allowed_spawn_actions
allowed_spawn_actions(game) == EmptyFrom(game.board, 0)

\* Adversarial2048::perform_spawn_action; the assert fails on a tile that
\* is not empty
perform_spawn_action(game, position) ==
    IF game.board[position + 1] # 0
    THEN [ok |-> FALSE, game |-> game]
    ELSE [ok |-> TRUE, game |-> [game EXCEPT !.board[position + 1] = 2]]

\* Adversarial2048::perform_player_action; expect("Illegal move") panics
\* when shift_and_merge returns no points
perform_player_action(game, dir) ==
    LET shifted == Adversarial2048_shift_and_merge(game.board, dir)
    IN  IF ~IsSome(shifted.points) THEN [ok |-> FALSE, game |-> game]
        ELSE [ok |-> TRUE,
              game |-> [game EXCEPT !.score = @ + unwrap(shifted.points),
                                    !.moves = @ + 1,
                                    !.board = shifted.board]]

\* Adversarial2048::random_spawn: one outcome per spawn choose_random can
\* draw; the assert fails on a full board
Adversarial2048_random_spawn(game) ==
    IF Adversarial2048_board_full(game) THEN {[ok |-> FALSE, game |-> game]}
    ELSE {LET spawned == perform_spawn_action(game, spawn)
          IN  [ok |-> spawned.ok,
               game |-> [spawned.game EXCEPT
                            !.last_action = Some(SpawnAction(spawn))]] :
             spawn \in choose_random(allowed_spawn_actions(game))}

\* Adversarial2048::new: the games two random spawns leave
Adversarial2048_new ==
    {second.game :
        second \in UNION {Adversarial2048_random_spawn(first.game) :
                             first \in Adversarial2048_random_spawn(
                                           Adversarial2048_empty)}}

\* <Adversarial2048 as Game>::allowed_actions
Adversarial2048_allowed_actions(game) ==
    IF IsSome(game.last_action)
       /\ unwrap(game.last_action).kind = "PlayerAction"
    THEN [i \in 1..Len(allowed_spawn_actions(game)) |->
             SpawnAction(allowed_spawn_actions(game)[i])]
    ELSE [i \in 1..Len(allowed_player_actions(game)) |->
             PlayerAction(allowed_player_actions(game)[i])]

\* <Adversarial2048 as Game>::make_move
Adversarial2048_make_move(game, action) ==
    LET done == IF action.kind = "PlayerAction"
                THEN perform_player_action(game, action.direction)
                ELSE perform_spawn_action(game, action.position)
    IN  IF ~done.ok THEN done
        ELSE [ok |-> TRUE,
              game |-> [done.game EXCEPT !.last_action = Some(action)]]

-----------------------------------------------------------------------------
(* Fixed-point arithmetic for the UCT1 value of best_child.                *)
(* Values are integers in units of 1/SCALE.  q/n is exact enough to order  *)
(* any two quotients of the small integers the model reaches; the          *)
(* exploration term carries ln and sqrt and is accurate to less than two   *)
(* units, so under c > 0 two values closer than UCT_TOL are both kept as   *)
(* possible maxima (a superset of what f32 arithmetic can select).         *)

SCALE == 10000
UCT_TOL == 4
INF == 2000000000

\* round(ln(N) * SCALE) for N = 1..256
LnTable ==
    <<
           0,  6931, 10986, 13863, 16094, 17918, 19459, 20794,
       21972, 23026, 23979, 24849, 25649, 26391, 27081, 27726,
       28332, 28904, 29444, 29957, 30445, 30910, 31355, 31781,
       32189, 32581, 32958, 33322, 33673, 34012, 34340, 34657,
       34965, 35264, 35553, 35835, 36109, 36376, 36636, 36889,
       37136, 37377, 37612, 37842, 38067, 38286, 38501, 38712,
       38918, 39120, 39318, 39512, 39703, 39890, 40073, 40254,
       40431, 40604, 40775, 40943, 41109, 41271, 41431, 41589,
       41744, 41897, 42047, 42195, 42341, 42485, 42627, 42767,
       42905, 43041, 43175, 43307, 43438, 43567, 43694, 43820,
       43944, 44067, 44188, 44308, 44427, 44543, 44659, 44773,
       44886, 44998, 45109, 45218, 45326, 45433, 45539, 45643,
       45747, 45850, 45951, 46052, 46151, 46250, 46347, 46444,
       46540, 46634, 46728, 46821, 46913, 47005, 47095, 47185,
       47274, 47362, 47449, 47536, 47622, 47707, 47791, 47875,
       47958, 48040, 48122, 48203, 48283, 48363, 48442, 48520,
       48598, 48675, 48752, 48828, 48903, 48978, 49053, 49127,
       49200, 49273, 49345, 49416, 49488, 49558, 49628, 49698,
       49767, 49836, 49904, 49972, 50039, 50106, 50173, 50239,
       50304, 50370, 50434, 50499, 50562, 50626, 50689, 50752,
       50814, 50876, 50938, 50999, 51059, 51120, 51180, 51240,
       51299, 51358, 51417, 51475, 51533, 51591, 51648, 51705,
       51761, 51818, 51874, 51930, 51985, 52040, 52095, 52149,
       52204, 52257, 52311, 52364, 52417, 52470, 52523, 52575,
       52627, 52679, 52730, 52781, 52832, 52883, 52933, 52983,
       53033, 53083, 53132, 53181, 53230, 53279, 53327, 53375,
       53423, 53471, 53519, 53566, 53613, 53660, 53706, 53753,
       53799, 53845, 53891, 53936, 53982, 54027, 54072, 54116,
       54161, 54205, 54250, 54293, 54337, 54381, 54424, 54467,
       54510, 54553, 54596, 54638, 54681, 54723, 54765, 54806,
       54848, 54889, 54931, 54972, 55013, 55053, 55094, 55134,
       55175, 55215, 55255, 55294, 55334, 55373, 55413, 55452 >>

\* f32::ln of a visit count >= 1
ln(N) == LnTable[N]

RECURSIVE isqrt_search(_, _, _)
isqrt_search(x, lo, hi) ==
    IF lo = hi THEN lo
    ELSE LET mid == (lo + hi + 1) \div 2
         IN  IF mid * mid <= x THEN isqrt_search(x, mid, hi)
             ELSE isqrt_search(x, lo, mid - 1)

\* f32::sqrt on a fixed-point argument scaled by SCALE * SCALE
sqrt(x) == isqrt_search(x, 0, 46340)

\* value = child.q / child.n + c*(2.*self.n.ln()/child.n).sqrt()
\* With child.n = 0 or self.n = 0 the f32 result is NaN (0/0, 0*inf,
\* inf-inf, sqrt of a negative) except q > 0, c > 0, self.n > 1: +inf.
uct_value(child_q, child_n, self_n, c) ==
    IF self_n < 1 THEN [nan |-> TRUE, v |-> 0]
    ELSE IF child_n < 1
    THEN IF child_q > 0 /\ c > 0 /\ self_n > 1
         THEN [nan |-> FALSE, v |-> INF]
         ELSE [nan |-> TRUE, v |-> 0]
    ELSE [nan |-> FALSE,
          v |-> ((child_q * SCALE) \div child_n)
                + (IF c = 0 THEN 0
                   ELSE c * sqrt((2 * ln(self_n) * SCALE) \div child_n))]

-----------------------------------------------------------------------------
(* TreeNode, src/src/mcts.rs *)

NodeStates == {"LeafNode", "FullyExpanded", "Expandable"}

\* TreeNode::new
TreeNodeNew(action) ==
    [action |-> action, children |-> <<>>, state |-> "Expandable",
     n |-> 0, q |-> 0]

\* a tree holding a fresh root only
TreeNew == <<TreeNodeNew(None)>>

\* the comparison of best_child as `value >= best_value`
ValueGreater_OrEqual(t, c, child, value, best, best_value) ==
    IF value.nan THEN {FALSE}
    ELSE IF best = None THEN {TRUE}
    ELSE {value.v >= best_value.v}

\* `value > best_value` in best_child, as the set of answers f32 arithmetic
\* can give: exact under c = 0 and for equal (q, n); under c > 0 both
\* answers are kept when the fixed-point values are within UCT_TOL
ValueGreater(t, c, child, value, best, best_value) ==
    IF value.nan THEN {FALSE}
    ELSE IF best = None THEN {TRUE}
    ELSE IF c = 0 \/ value.v = INF \/ best_value.v = INF
    THEN {value.v > best_value.v}
    ELSE IF t[child].q = t[unwrap(best)].q /\ t[child].n = t[unwrap(best)].n
    THEN {FALSE}
    ELSE IF value.v > best_value.v + UCT_TOL THEN {TRUE}
    ELSE IF value.v + UCT_TOL < best_value.v THEN {FALSE}
    ELSE {TRUE, FALSE}

\* the loop of TreeNode::best_child from child i on
RECURSIVE best_child_scan(_, _, _, _, _, _)
best_child_scan(t, id, c, i, best, best_value) ==
    IF i > Len(t[id].children) THEN {best}
    ELSE LET child == t[id].children[i]
             value == uct_value(t[child].q, t[child].n, t[id].n, c)
         IN  UNION {IF greater
                    THEN best_child_scan(t, id, c, i + 1, Some(child), value)
                    ELSE best_child_scan(t, id, c, i + 1, best, best_value) :
                       greater \in ValueGreater(t, c, child, value,
                                                best, best_value)}

\* TreeNode::best_child: the Option<child> the scan can end on
best_child(t, id, c) ==
    best_child_scan(t, id, c, 1, None, [nan |-> FALSE, v |-> -INF])

\* outcome of a call that hit a panic
Panic(t, game) ==
    [tree |-> t, game |-> game, delta |-> 0, ok |-> FALSE, legal |-> TRUE]

\* the action is one of game.allowed_actions()
IsAllowed(game, action) ==
    \E i \in 1..Len(allowed_actions(game)) : allowed_actions(game)[i] = action

\* untried_actions without the filter
untried_actions_All(allowed, child_actions) == allowed

\* "Find untried actions": the allowed actions that no child carries, in
\* the order of allowed_actions
untried_actions(allowed, child_actions) ==
    LET contains(a) ==
            \E i \in 1..Len(child_actions) : child_actions[i] = Some(a)
    IN  SelectSeq(allowed, LAMBDA a : ~contains(a))

\* MarkLeaf that leaves the state as it is
MarkLeaf_Skip(t, id) == t

\* self.state = NodeState::LeafNode
MarkLeaf(t, id) == [t EXCEPT ![id].state = "LeafNode"]

\* expand that closes the node one action early
expand_EarlyFull(t, id, game) ==
    LET allowed == allowed_actions(game)
        ch == t[id].children
        child_actions == [i \in 1..Len(ch) |-> t[ch[i]].action]
        candidate_actions == untried_actions(allowed, child_actions)
        new == Len(t) + 1
    IN  IF Len(allowed) = 0
        THEN {[tree |-> MarkLeaf(t, id), child |-> None, ok |-> TRUE]}
        ELSE IF \/ \E i \in 1..Len(ch) : ~IsSome(child_actions[i])
                \/ Len(candidate_actions) = 0
        THEN {[tree |-> t, child |-> None, ok |-> FALSE]}
        ELSE {[tree |-> Append(
                   [t EXCEPT ![id].state =
                                 IF Len(candidate_actions) <= 2
                                 THEN "FullyExpanded" ELSE @,
                             ![id].children = Append(@, new)],
                   TreeNodeNew(Some(action))),
               child |-> Some(new), ok |-> TRUE] :
                  action \in choose_random(candidate_actions)}

\* expand that never closes the node
expand_NeverFull(t, id, game) ==
    LET allowed == allowed_actions(game)
        ch == t[id].children
        child_actions == [i \in 1..Len(ch) |-> t[ch[i]].action]
        candidate_actions == untried_actions(allowed, child_actions)
        new == Len(t) + 1
    IN  IF Len(allowed) = 0
        THEN {[tree |-> MarkLeaf(t, id), child |-> None, ok |-> TRUE]}
        ELSE IF \/ \E i \in 1..Len(ch) : ~IsSome(child_actions[i])
                \/ Len(candidate_actions) = 0
        THEN {[tree |-> t, child |-> None, ok |-> FALSE]}
        ELSE {[tree |-> Append([t EXCEPT ![id].children = Append(@, new)],
                               TreeNodeNew(Some(action))),
               child |-> Some(new), ok |-> TRUE] :
                  action \in choose_random(candidate_actions)}

\* expand that lists the moves of MiniGame::new whatever the state is
expand_OpeningMoves(t, id, game) ==
    LET allowed == allowed_actions(MiniGameNew)
        ch == t[id].children
        child_actions == [i \in 1..Len(ch) |-> t[ch[i]].action]
        candidate_actions == untried_actions(allowed, child_actions)
        new == Len(t) + 1
    IN  IF Len(allowed) = 0
        THEN {[tree |-> MarkLeaf(t, id), child |-> None, ok |-> TRUE]}
        ELSE IF \/ \E i \in 1..Len(ch) : ~IsSome(child_actions[i])
                \/ Len(candidate_actions) = 0
        THEN {[tree |-> t, child |-> None, ok |-> FALSE]}
        ELSE {[tree |-> Append(
                   [t EXCEPT ![id].state =
                                 IF Len(candidate_actions) = 1
                                 THEN "FullyExpanded" ELSE @,
                             ![id].children = Append(@, new)],
                   TreeNodeNew(Some(action))),
               child |-> Some(new), ok |-> TRUE] :
                  action \in choose_random(candidate_actions)}

\* TreeNode::expand: every (tree, new child) a random draw yields
expand(t, id, game) ==
    LET allowed == allowed_actions(game)
        ch == t[id].children
        child_actions == [i \in 1..Len(ch) |-> t[ch[i]].action]
        candidate_actions == untried_actions(allowed, child_actions)
        new == Len(t) + 1
    IN  IF Len(allowed) = 0
        THEN {[tree |-> MarkLeaf(t, id), child |-> None, ok |-> TRUE]}
        ELSE IF \/ \E i \in 1..Len(ch) : ~IsSome(child_actions[i])
                \/ Len(candidate_actions) = 0
        THEN {[tree |-> t, child |-> None, ok |-> FALSE]}
        ELSE {[tree |-> Append(
                   [t EXCEPT ![id].state =
                                 IF Len(candidate_actions) = 1
                                 THEN "FullyExpanded" ELSE @,
                             ![id].children = Append(@, new)],
                   TreeNodeNew(Some(action))),
               child |-> Some(new), ok |-> TRUE] :
                  action \in choose_random(candidate_actions)}

\* RecordPlayout that leaves the new child uncounted
RecordPlayout_Skip(t, child, delta) == t

\* child.n += 1.; child.q += delta;  on the child expand just created
RecordPlayout(t, child, delta) ==
    [t EXCEPT ![child].n = @ + 1, ![child].q = @ + delta]

\* AddVisit that also closes a node as soon as one of its children is a
\* leaf
AddVisit_CloseParent(t, id, delta) ==
    [t EXCEPT ![id].n = @ + 1, ![id].q = @ + delta,
              ![id].state =
                  IF \E i \in 1..Len(t[id].children) :
                        t[t[id].children[i]].state = "LeafNode"
                  THEN "LeafNode" ELSE @]

\* AddVisit that backs the value up with the sign flipped
AddVisit_Negate(t, id, delta) ==
    [t EXCEPT ![id].n = @ + 1, ![id].q = @ - delta]

\* AddVisit that counts the visit twice
AddVisit_Double(t, id, delta) ==
    [t EXCEPT ![id].n = @ + 2, ![id].q = @ + delta]

\* AddVisit that counts only the first visit of a root
AddVisit_RootOnce(t, id, delta) ==
    [t EXCEPT ![id].n = IF id = 1 /\ @ >= 1 THEN @ ELSE @ + 1,
              ![id].q = @ + delta]

\* self.n += 1.; self.q += delta;
AddVisit(t, id, delta) == [t EXCEPT ![id].n = @ + 1, ![id].q = @ + delta]

\* VisitLeaf that backs up no reward
VisitLeaf_NoReward(t, game) ==
    {[tree |-> t, game |-> game, delta |-> 0, ok |-> TRUE, legal |-> TRUE]}

\* NodeState::LeafNode => game.reward(): the tree is left as it is
VisitLeaf(t, game) ==
    {[tree |-> t, game |-> game, delta |-> reward(game), ok |-> TRUE,
      legal |-> TRUE]}

\* TreeNode::iteration on node `id`: every (tree, mutated game, delta);
\* `legal` records whether every action the call handed to make_move on
\* `game` was one of the allowed actions of `game` at that moment
RECURSIVE iteration(_, _, _, _)
iteration(t, id, game, c) ==
    LET self == t[id]
        inner ==
            CASE self.state = "LeafNode" -> VisitLeaf(t, game)
              [] self.state = "FullyExpanded" ->
                   UNION {IF ~IsSome(b) THEN {Panic(t, game)}
                          ELSE IF ~IsSome(t[unwrap(b)].action)
                          THEN {Panic(t, game)}
                          ELSE LET action == unwrap(t[unwrap(b)].action)
                               IN  {[r EXCEPT !.legal =
                                        @ /\ IsAllowed(game, action)] :
                                      r \in iteration(t, unwrap(b),
                                               make_move(game, action), c)} :
                             b \in best_child(t, id, c)}
              [] self.state = "Expandable" ->
                   UNION {IF ~e.ok THEN {Panic(e.tree, game)}
                          ELSE IF ~IsSome(e.child)
                          THEN {[tree |-> e.tree, game |-> game,
                                 delta |-> reward(game), ok |-> TRUE,
                                 legal |-> TRUE]}
                          ELSE LET child == unwrap(e.child)
                                   action == unwrap(e.tree[child].action)
                                   moved == make_move(game, action)
                               IN  {[tree |-> RecordPlayout(e.tree, child,
                                                          reward(p)),
                                     game |-> moved, delta |-> reward(p),
                                     ok |-> TRUE,
                                     legal |-> IsAllowed(game, action)] :
                                      p \in playout(moved)} :
                             e \in expand(t, id, game)}
    IN  {IF r.ok THEN [r EXCEPT !.tree = AddVisit(r.tree, id, r.delta)]
         ELSE r : r \in inner}

-----------------------------------------------------------------------------
(* TreeStatistics, src/src/mcts.rs *)

\* i32::MAX, the start value of the min_depth fold
I32_MAX == 2147483647

\* child_stats.iter().fold(0, |sum, child| sum + child.nodes) from child i on
RECURSIVE fold_nodes(_, _, _)
fold_nodes(child_stats, i, sum) ==
    IF i > Len(child_stats) THEN sum
    ELSE fold_nodes(child_stats, i + 1, sum + child_stats[i].nodes)

\* fold(i32::MAX, |depth, child| min(depth, child.min_depth)) from child i on
RECURSIVE fold_min_depth(_, _, _)
fold_min_depth(child_stats, i, depth) ==
    IF i > Len(child_stats) THEN depth
    ELSE fold_min_depth(child_stats, i + 1,
                        IF depth < child_stats[i].min_depth THEN depth
                        ELSE child_stats[i].min_depth)

\* fold(0, |depth, child| max(depth, child.max_depth)) from child i on
RECURSIVE fold_max_depth(_, _, _)
fold_max_depth(child_stats, i, depth) ==
    IF i > Len(child_stats) THEN depth
    ELSE fold_max_depth(child_stats, i + 1,
                        IF depth > child_stats[i].max_depth THEN depth
                        ELSE child_stats[i].max_depth)

\* merge that does not count the step down to the children
merge_NoDepthStep(child_stats) ==
    IF Len(child_stats) = 0
    THEN [nodes |-> 1, min_depth |-> 0, max_depth |-> 0]
    ELSE [nodes |-> fold_nodes(child_stats, 1, 0),
          min_depth |-> fold_min_depth(child_stats, 1, I32_MAX),
          max_depth |-> fold_max_depth(child_stats, 1, 0)]

\* TreeStatistics::merge
merge(child_stats) ==
    IF Len(child_stats) = 0
    THEN [nodes |-> 1, min_depth |-> 0, max_depth |-> 0]
    ELSE [nodes |-> fold_nodes(child_stats, 1, 0),
          min_depth |-> 1 + fold_min_depth(child_stats, 1, I32_MAX),
          max_depth |-> 1 + fold_max_depth(child_stats, 1, 0)]

\* TreeNode::tree_statistics of node `id` of tree t
RECURSIVE tree_statistics(_, _)
tree_statistics(t, id) ==
    LET child_stats == [i \in 1..Len(t[id].children) |->
                           tree_statistics(t, t[id].children[i])]
    IN  merge(child_stats)

-----------------------------------------------------------------------------
(* MCTS, the ensemble coordinator, src/src/mcts.rs *)

\* iterations_per_s as a rational <<num, den>>; den = 0 is +infinity
Rate(num, den) == <<num, den>>
IsInfinite(rate) == rate[2] = 0

\* MCTS::new with the loop as `for i in 1..ensamble_size`
MCTSNew_FromOne(game, ensamble_size) ==
    [roots |-> [i \in 1..(ensamble_size - 1) |-> TreeNew],
     games |-> [i \in 1..(ensamble_size - 1) |->
                   set_rng_seed(clone(game), i)],
     iterations_per_s |-> Rate(1, 1),
     caller |-> game]

\* MCTS::new; `caller` is the state behind the argument `game: &G` after
\* the call (the loop seeds a clone that shadows it)
MCTSNew(game, ensamble_size) ==
    [roots |-> [i \in 1..ensamble_size |-> TreeNew],
     games |-> [i \in 1..ensamble_size |-> set_rng_seed(clone(game), i - 1)],
     iterations_per_s |-> Rate(1, 1),
     caller |-> game]

\* advance_game without the assignment to self.roots
advance_game_KeepRoots(rts, gms, game) ==
    [roots |-> rts,
     games |-> [i \in 1..Len(gms) |-> set_rng_seed(clone(game), i - 1)]]

\* MCTS::advance_game: the new (roots, games)
advance_game(rts, gms, game) ==
    LET ensamble_size == Len(gms)
    IN  [roots |-> [i \in 1..ensamble_size |-> TreeNew],
         games |-> [i \in 1..ensamble_size |->
                       set_rng_seed(clone(game), i - 1)]]

\* SearchSample without the clone: iteration works on the stored game
SearchSample_NoClone(root, game, c) ==
    {[root |-> r.tree, game |-> r.game, ok |-> r.ok] :
        r \in iteration(root, 1, game, c)}

\* one pass of the inner loop of MCTS::search: the stored game is cloned
\* and the clone is handed to iteration
SearchSample(root, game, c) ==
    {[root |-> r.tree, game |-> game, ok |-> r.ok] :
        r \in iteration(root, 1, clone(game), c)}

\* the inner loop of MCTS::search: n_samples iterations on one member, one
\* after the other; a panic ends the loop.  The passes are evaluated as a
\* first and a second run of passes, which keeps the evaluation shallow
\* for the batches of search_time.
RECURSIVE SearchMember(_, _, _, _)
SearchMember(root, game, n_samples, c) ==
    IF n_samples = 0
    THEN {[root |-> root, game |-> game, ok |-> TRUE]}
    ELSE IF n_samples = 1
    THEN SearchSample(root, game, c)
    ELSE LET first == n_samples \div 2
         IN  UNION {IF s.ok
                    THEN SearchMember(s.root, s.game, n_samples - first, c)
                    ELSE {s} : s \in SearchMember(root, game, first, c)}

\* the outer loop with `root` bound to the first member's tree throughout
RECURSIVE SearchFrom_FirstRoot(_, _, _, _, _)
SearchFrom_FirstRoot(rts, gms, e, n_samples, c) ==
    IF e > Len(gms)
    THEN {[roots |-> rts, games |-> gms, ok |-> TRUE]}
    ELSE UNION {IF m.ok
                THEN SearchFrom_FirstRoot([rts EXCEPT ![1] = m.root],
                                          [gms EXCEPT ![e] = m.game],
                                          e + 1, n_samples, c)
                ELSE {[roots |-> [rts EXCEPT ![1] = m.root],
                       games |-> [gms EXCEPT ![e] = m.game],
                       ok |-> FALSE]} :
                   m \in SearchMember(rts[1], gms[e], n_samples, c)}

\* the outer loop of MCTS::search from member e on
RECURSIVE SearchFrom(_, _, _, _, _)
SearchFrom(rts, gms, e, n_samples, c) ==
    IF e > Len(gms)
    THEN {[roots |-> rts, games |-> gms, ok |-> TRUE]}
    ELSE UNION {IF m.ok
                THEN SearchFrom([rts EXCEPT ![e] = m.root],
                                [gms EXCEPT ![e] = m.game],
                                e + 1, n_samples, c)
                ELSE {[roots |-> [rts EXCEPT ![e] = m.root],
                       games |-> [gms EXCEPT ![e] = m.game],
                       ok |-> FALSE]} :
                   m \in SearchMember(rts[e], gms[e], n_samples, c)}

\* search with the sample loop one pass short
search_OneShort(rts, gms, n_samples, c) ==
    SearchFrom(rts, gms, 1, IF n_samples > 0 THEN n_samples - 1 ELSE 0, c)

\* MCTS::search
search(rts, gms, n_samples, c) == SearchFrom(rts, gms, 1, n_samples, c)

\* MCTS::tree_statistics
MCTS_tree_statistics(rts) ==
    LET child_stats == [e \in 1..Len(rts) |-> tree_statistics(rts[e], 1)]
    IN  merge(child_stats)

Min(a, b) == IF a < b THEN a ELSE b
Max(a, b) == IF a > b THEN a ELSE b

\* batch_size without the lower clamp
batch_size_NoLower(rate, millis, lo) ==
    IF IsInfinite(rate)
    THEN IF millis > 0 THEN 100 ELSE 0
    ELSE Min(Max((rate[1] * millis) \div (rate[2] * 1000), 0), 100)

\* batch_size with NaN (inf * 0) taken for the upper clamp
batch_size_NaNFull(rate, millis, lo) ==
    IF IsInfinite(rate)
    THEN IF millis >= 0 THEN 100 ELSE lo
    ELSE Min(Max((rate[1] * millis) \div (rate[2] * 1000), lo), 100)

\* (iterations_per_s * seconds).max(lo).min(100.) as usize, seconds being
\* millis / 1000.  inf * 0 is NaN and NaN.max(lo) is lo.
batch_size(rate, millis, lo) ==
    IF IsInfinite(rate)
    THEN IF millis > 0 THEN 100 ELSE lo
    ELSE Min(Max((rate[1] * millis) \div (rate[2] * 1000), lo), 100)

\* (samples_total as f32) / time_spend, time_spend = millis / 1000
RECURSIVE GCD(_, _)
GCD(a, b) == IF b = 0 THEN a ELSE GCD(b, a % b)

\* measured_rate with time_spend left in milliseconds
measured_rate_Millis(samples_total, millis) ==
    IF millis = 0 THEN Rate(1, 0)
    ELSE LET g == GCD(samples_total, millis)
         IN  Rate(samples_total \div g, millis \div g)

measured_rate(samples_total, millis) ==
    IF millis = 0 THEN Rate(1, 0)
    ELSE LET g == GCD(samples_total * 1000, millis)
         IN  Rate((samples_total * 1000) \div g, millis \div g)

\* wall-clock milliseconds one search batch may take between two readings
\* of time::now()
BatchMillis == {0, 500}

\* the while loop of MCTS::search_time.  `done` counts the samples of the
\* batches run so far (samples_total), `spent` the milliseconds since t0.
\* A run whose next batch would pass MaxVisits is left out of the model.
RECURSIVE search_time_loop(_, _, _, _, _, _, _, _, _)
search_time_loop(rts, gms, rate, n_samples, done, spent, budget, c, room) ==
    IF n_samples < 5
    THEN {[roots |-> rts, games |-> gms, iterations_per_s |-> rate,
           samples_total |-> done, ok |-> TRUE]}
    ELSE IF n_samples > room THEN {}
    ELSE UNION {
           IF ~s.ok
           THEN {[roots |-> s.roots, games |-> s.games,
                  iterations_per_s |-> rate,
                  samples_total |-> done, ok |-> FALSE]}
           ELSE UNION {
                  LET samples_total == done + n_samples
                      time_spend == spent + d
                      new_rate == measured_rate(samples_total, time_spend)
                      time_left == budget - time_spend
                  IN  search_time_loop(s.roots, s.games, new_rate,
                          batch_size(new_rate, time_left, 0),
                          samples_total, time_spend, budget, c,
                          room - n_samples) : d \in BatchMillis} :
           s \in search(rts, gms, n_samples, c)}

\* MCTS::search_time with budget_seconds = budget / 1000
search_time(rts, gms, rate, budget, c, room) ==
    search_time_loop(rts, gms, rate, batch_size(rate, budget, 10),
                     0, 0, budget, c, room)

\* (member, node) of every direct child of a root, as MCTS::best_action
\* visits them
RootChildren(rts, gms) ==
    UNION {{<<e, rts[e][1].children[i]>> :
               i \in 1..Len(rts[e][1].children)} : e \in 1..Len(gms)}

\* MergedActions without the actions whose children hold a single visit
MergedActions_Revisited(rts, gms) ==
    {unwrap(rts[ec[1]][ec[2]].action) :
        ec \in {x \in RootChildren(rts, gms) : rts[x[1]][x[2]].n >= 2}}

\* the keys of n_values / q_values
MergedActions(rts, gms) ==
    {unwrap(rts[ec[1]][ec[2]].action) : ec \in RootChildren(rts, gms)}

RECURSIVE SumN(_, _)
SumN(rts, ecs) ==
    IF ecs = {} THEN 0
    ELSE LET ec == CHOOSE x \in ecs : TRUE
         IN  rts[ec[1]][ec[2]].n + SumN(rts, ecs \ {ec})

RECURSIVE SumQ(_, _)
SumQ(rts, ecs) ==
    IF ecs = {} THEN 0
    ELSE LET ec == CHOOSE x \in ecs : TRUE
         IN  rts[ec[1]][ec[2]].q + SumQ(rts, ecs \ {ec})

WithAction(rts, gms, action) ==
    {ec \in RootChildren(rts, gms) : rts[ec[1]][ec[2]].action = Some(action)}

\* n_values[action] and q_values[action] after the merge loop
n_values(rts, gms, action) == SumN(rts, WithAction(rts, gms, action))
q_values(rts, gms, action) == SumQ(rts, WithAction(rts, gms, action))

\* f32 value q / n as a tagged quotient
Quotient(q, n) ==
    IF n > 0 THEN [kind |-> "finite", q |-> q, n |-> n]
    ELSE IF q > 0 THEN [kind |-> "inf", q |-> 1, n |-> 1]
    ELSE IF q < 0 THEN [kind |-> "neg_inf", q |-> -1, n |-> 1]
    ELSE [kind |-> "nan", q |-> 0, n |-> 1]

\* best_value starting at 0. instead
ZERO_VALUE == [kind |-> "finite", q |-> 0, n |-> 1]

NEG_INFINITY == [kind |-> "neg_inf", q |-> -1, n |-> 1]

\* the comparison the wrong way round
Greater_Less(a, b) ==
    CASE a.kind = "nan" \/ b.kind = "nan" -> FALSE
      [] a.kind = "inf" -> FALSE
      [] a.kind = "neg_inf" -> b.kind # "neg_inf"
      [] a.kind = "finite" ->
            \/ b.kind = "inf" \/ b.kind = "neg_inf"
            \/ b.kind = "finite" /\ a.q * b.n < b.q * a.n

\* a > b on f32 values; the quotients of two small integers compare as
\* the rationals do
Greater(a, b) ==
    CASE a.kind = "nan" \/ b.kind = "nan" -> FALSE
      [] a.kind = "neg_inf" -> FALSE
      [] a.kind = "inf" -> b.kind # "inf"
      [] a.kind = "finite" ->
            \/ b.kind = "neg_inf"
            \/ b.kind = "finite" /\ a.q * b.n > b.q * a.n

\* the orders in which `for (action, n) in &n_values` may yield the keys:
\* HashMap iteration order is unspecified
KeyOrders(keys) ==
    {order \in [1..Cardinality(keys) -> keys] :
        \A i, j \in 1..Cardinality(keys) : i # j => order[i] # order[j]}

\* the "Find best action" loop over the keys order[i..]
RECURSIVE BestActionScan(_, _, _, _, _, _)
BestActionScan(rts, gms, order, i, best_action_, best_value) ==
    IF i > Len(order) THEN best_action_
    ELSE LET action == order[i]
             value == Quotient(q_values(rts, gms, action),
                               n_values(rts, gms, action))
         IN  IF Greater(value, best_value)
             THEN BestActionScan(rts, gms, order, i + 1, Some(action), value)
             ELSE BestActionScan(rts, gms, order, i + 1,
                                 best_action_, best_value)

\* MCTS::best_action: every Option<A> some key order returns
best_action(rts, gms) ==
    {BestActionScan(rts, gms, order, 1, None, NEG_INFINITY) :
        order \in KeyOrders(MergedActions(rts, gms))}

-----------------------------------------------------------------------------
(* The coordinator as a state machine: one action per public call *)

\* exploration constants passed to search / search_time
CValues == {0, 1}

\* budgets passed to search_time, in milliseconds
Budgets == {0, 500}

\* sums of the game states handed to new / advance_game; each is reachable
\* from MiniGame::new by legal moves.  From the opening and the DeepSums a
\* playout is a random walk of several moves whose reward depends on the
\* draws; these positions are searched for fewer samples, and the larger
\* the ensemble the shallower the positions it is built on.
OpeningSums == {MiniGameNew.sum}
DeepSums == {5}
ShallowSums == {7, 8, 9, 11}
FlatSums == {8, 11}

StartSums(ensamble_size) ==
    IF ensamble_size <= 1 THEN OpeningSums \cup DeepSums \cup ShallowSums
    ELSE IF ensamble_size = 2 THEN DeepSums \cup FlatSums
    ELSE FlatSums

\* the visits the model lets a root built on `game` collect
VisitCap(game, ensamble_size) ==
    IF game.sum \in OpeningSums THEN MaxOpeningVisits
    ELSE IF game.sum \in DeepSums
    THEN IF ensamble_size <= 1 THEN MaxDeepVisits ELSE MaxPairVisits
    ELSE IF ensamble_size <= 2 THEN MaxVisits ELSE MaxPairVisits

StartGames(ensamble_size) ==
    {[MiniGameNew EXCEPT !.sum = s] : s \in StartSums(ensamble_size)}

\* no call of playout is being followed step by step
PlayoutIdle ==
    /\ playout_pc = "idle"
    /\ playout_initial = MiniGameNew
    /\ playout_game = MiniGameNew
    /\ playout_potential_moves = <<>>
    /\ playout_moves = 0

\* no batch of a search_time call has been recorded
NoBatch == [n_samples |-> 0, rate |-> Rate(1, 1), millis |-> 0, started |-> 0]

\* no call of search_time is being followed batch by batch
FrameIdle ==
    [pc |-> "idle", budget |-> 0, c |-> 0, n_samples |-> 0,
     samples_total |-> 0, time_spend |-> 0, stalled |-> 0, batches |-> 0,
     first |-> NoBatch, latest |-> NoBatch, again |-> FALSE, left |-> None]

TimeIdle == frame = FrameIdle

\* no pair of 2048 games is being followed
TwinIdle ==
    /\ twin_a = TwoFortyEightNew
    /\ twin_b = TwoFortyEightNew
    /\ twin_moves = <<>>

\* merge_vec has not been called on the line
NoMerge == [called |-> FALSE]

\* no Adversarial2048 game and no line is being followed
BoardIdle ==
    /\ adv = Adversarial2048_empty
    /\ adv_panic = "none"
    /\ merge_in = <<>>
    /\ merge_out = NoMerge

Init ==
    \E ensamble_size \in 0..MaxEnsemble :
        \E game \in StartGames(ensamble_size) :
            LET mcts == MCTSNew(game, ensamble_size)
            IN  /\ roots = mcts.roots
                /\ games = mcts.games
                /\ iterations_per_s = mcts.iterations_per_s
                /\ aborted = FALSE
                /\ requested = 0
                /\ last = [op |-> "new", game |-> mcts.caller,
                           size |-> ensamble_size]
                /\ PlayoutIdle
                /\ TwinIdle
                /\ TimeIdle
                /\ BoardIdle

\* AdvanceGame that starts the rate estimate afresh, as MCTS::new does
AdvanceGame_ResetRate(game) ==
    /\ ~aborted
    /\ LET mcts == advance_game(roots, games, game)
       IN  /\ roots' = mcts.roots
           /\ games' = mcts.games
    /\ requested' = 0
    /\ last' = [last EXCEPT !.op = "advance_game", !.game = game]
    /\ iterations_per_s' = Rate(1, 1)
    /\ UNCHANGED aborted
    /\ UNCHANGED <<playout_vars, twin_vars, time_vars, board_vars>>

AdvanceGame(game) ==
    /\ ~aborted
    /\ LET mcts == advance_game(roots, games, game)
       IN  /\ roots' = mcts.roots
           /\ games' = mcts.games
    /\ requested' = 0
    /\ last' = [last EXCEPT !.op = "advance_game", !.game = game]
    /\ UNCHANGED <<iterations_per_s, aborted>>
    /\ UNCHANGED <<playout_vars, twin_vars, time_vars, board_vars>>

Search(n_samples, c) ==
    /\ ~aborted
    /\ requested + n_samples <= VisitCap(last.game, Len(games))
    /\ \E s \in search(roots, games, n_samples, c) :
          /\ roots' = s.roots
          /\ games' = s.games
          /\ aborted' = ~s.ok
    /\ requested' = requested + n_samples
    /\ last' = [last EXCEPT !.op = "search"]
    /\ UNCHANGED iterations_per_s
    /\ UNCHANGED <<playout_vars, twin_vars, time_vars, board_vars>>

SearchTime(budget, c) ==
    /\ ~aborted
    /\ \E s \in search_time(roots, games, iterations_per_s, budget, c,
                            VisitCap(last.game, Len(games)) - requested) :
          /\ roots' = s.roots
          /\ games' = s.games
          /\ iterations_per_s' = s.iterations_per_s
          /\ aborted' = ~s.ok
          /\ requested' = requested + s.samples_total
          /\ last' = [last EXCEPT !.op = "search_time"]
    /\ UNCHANGED <<playout_vars, twin_vars, time_vars, board_vars>>

Next ==
    \/ \E game \in StartGames(Len(games)) : AdvanceGame(game)
    \/ \E n_samples \in 0..MaxSamples, c \in CValues : Search(n_samples, c)
    \/ \E budget \in Budgets, c \in CValues : SearchTime(budget, c)

Spec == Init /\ [][Next]_vars

-----------------------------------------------------------------------------
(* The first searches on an ensemble of several members: MCTS::new with    *)
(* ensamble_size >= 2, then search calls until a root holds MaxInterleaved *)
(* visits.                                                                 *)

EnsembleInit ==
    /\ Init
    /\ Len(games) >= 2

EnsembleSearch(n_samples, c) ==
    /\ requested + n_samples <= MaxInterleaved
    /\ Search(n_samples, c)

EnsembleNext ==
    \E n_samples \in 0..MaxSamples, c \in CValues :
        EnsembleSearch(n_samples, c)

EnsembleSpec == EnsembleInit /\ [][EnsembleNext]_vars

-----------------------------------------------------------------------------
(* One call of playout(&initial), statement by statement *)

\* the sums a MiniGame can hold: MiniGame::new and what legal moves reach
PlayoutSums == {MiniGameNew.sum} \cup (DRAW_MIN..(WINNING_SUM + DRAW_MAX - 2))

PlayoutInit ==
    /\ \E sum \in PlayoutSums :
          /\ playout_initial = [MiniGameNew EXCEPT !.sum = sum]
          /\ playout_game = [MiniGameNew EXCEPT !.sum = sum]
          /\ last = [op |-> "playout",
                     game |-> [MiniGameNew EXCEPT !.sum = sum],
                     size |-> 0]
    /\ playout_pc = "call"
    /\ playout_potential_moves = <<>>
    /\ playout_moves = 0
    /\ roots = <<>>
    /\ games = <<>>
    /\ iterations_per_s = Rate(1, 1)
    /\ aborted = FALSE
    /\ requested = 0
    /\ TwinIdle
    /\ TimeIdle
    /\ BoardIdle

\* let mut game = initial.clone();
\* let mut potential_moves = game.allowed_actions();
PlayoutEnter ==
    /\ playout_pc = "call"
    /\ playout_game' = clone(playout_initial)
    /\ playout_potential_moves' = allowed_actions(clone(playout_initial))
    /\ playout_pc' = "loop"
    /\ UNCHANGED <<playout_initial, playout_moves>>
    /\ UNCHANGED <<mcts_vars, twin_vars, time_vars, board_vars>>

\* PlayoutMove that draws a move and does not apply it
PlayoutMove_NotApplied ==
    /\ playout_pc = "loop"
    /\ Len(playout_potential_moves) > 0
    /\ \E action \in choose_random(playout_potential_moves) :
          /\ playout_game' = playout_game
          /\ playout_potential_moves' = allowed_actions(playout_game)
    /\ UNCHANGED <<playout_pc, playout_initial, playout_moves>>
    /\ UNCHANGED <<mcts_vars, twin_vars, time_vars, board_vars>>

\* one pass of `while potential_moves.len() > 0`
PlayoutMove ==
    /\ playout_pc = "loop"
    /\ Len(playout_potential_moves) > 0
    /\ \E action \in choose_random(playout_potential_moves) :
          /\ playout_game' = make_move(playout_game, action)
          /\ playout_potential_moves' =
                allowed_actions(make_move(playout_game, action))
    /\ playout_moves' = playout_moves + 1
    /\ UNCHANGED <<playout_pc, playout_initial>>
    /\ UNCHANGED <<mcts_vars, twin_vars, time_vars, board_vars>>

\* the loop condition fails and `game` is returned
PlayoutReturn ==
    /\ playout_pc = "loop"
    /\ Len(playout_potential_moves) = 0
    /\ playout_pc' = "return"
    /\ UNCHANGED <<playout_initial, playout_game,
                   playout_potential_moves, playout_moves>>
    /\ UNCHANGED <<mcts_vars, twin_vars, time_vars, board_vars>>

PlayoutNext ==
    \/ PlayoutEnter
    \/ PlayoutMove
    \/ PlayoutReturn

\* a call that has started runs on: nothing stops the loop but its test
PlayoutSpec == PlayoutInit /\ [][PlayoutNext]_vars /\ WF_vars(PlayoutNext)

-----------------------------------------------------------------------------
(* Two equal TwoFortyEight states that are handed the same actions through *)
(* make_move, each call drawing its own spawn.                             *)

\* most moves handed to the pair
MaxTwinMoves == 1

\* the tiles (idx + 1) the two spawns before the first move fall on
StartTiles == {1, 2, 6, 16}

TwinStarts ==
    {second.game :
        second \in UNION {random_spawn(first.game) :
                             first \in random_spawn(TwoFortyEightNew)}}

TwinInit ==
    /\ \E game \in TwinStarts :
          /\ \A idx \in 1..(WIDTH * HEIGHT) :
                game.board[idx] # 0 => idx \in StartTiles
          /\ twin_a = game
          /\ twin_b = clone(game)
    /\ twin_moves = <<>>
    /\ roots = <<>>
    /\ games = <<>>
    /\ iterations_per_s = Rate(1, 1)
    /\ aborted = FALSE
    /\ requested = 0
    /\ last = [op |-> "make_move", game |-> MiniGameNew, size |-> 0]
    /\ PlayoutIdle
    /\ TimeIdle
    /\ BoardIdle

\* a.make_move(&action); b.make_move(&action);
TwinMove(action) ==
    /\ Len(twin_moves) < MaxTwinMoves
    /\ \E i \in 1..Len(TwoFortyEight_allowed_actions(twin_a)) :
          TwoFortyEight_allowed_actions(twin_a)[i] = action
    /\ \E i \in 1..Len(TwoFortyEight_allowed_actions(twin_b)) :
          TwoFortyEight_allowed_actions(twin_b)[i] = action
    /\ \E a \in TwoFortyEight_make_move(twin_a, action),
          b \in TwoFortyEight_make_move(twin_b, action) :
          /\ a.ok /\ b.ok
          /\ twin_a' = a.game
          /\ twin_b' = b.game
    /\ twin_moves' = Append(twin_moves, action)
    /\ UNCHANGED <<mcts_vars, playout_vars, time_vars, board_vars>>

TwinNext ==
    \E i \in 1..Len(Directions) : TwinMove(Directions[i])

TwinSpec == TwinInit /\ [][TwinNext]_vars

-----------------------------------------------------------------------------
(* The coordinator with search_time run batch by batch: a first call on    *)
(* the ensemble MCTS::new has built and, after advance_game, a second one  *)
(* that starts from the rate the first has left.  The roots stand on       *)
(* finished games, where an iteration only counts the visit, so that       *)
(* batches of a hundred samples can be run; the batch arithmetic of        *)
(* search_time never reads the trees.                                      *)

\* most consecutive batches of one call between which the clock reading
\* (whole milliseconds since t0) stays the same
MaxStalled == 1

\* milliseconds by which the clock reading grows over one batch
StepMillis == {0, 200, 500}

\* exploration constant passed to search_time; it is handed on to search
\* and plays no part on a finished game
TimeCValues == {1}

\* sums of the finished games the ensembles are built on
TimeSums == {WINNING_SUM}

TimeGames == {[MiniGameNew EXCEPT !.sum = s] : s \in TimeSums}

\* budgets passed to search_time, in milliseconds: those of Budgets and a
\* negative one
TimeBudgets == Budgets \cup {-100}

\* the ensemble sizes: none, and the two of tests::test_search_time
TimeSizes == {0, 2}

\* n_samples of the search calls between two calls of search_time
TimeSamples == {1}

TimeInit ==
    /\ \E ensamble_size \in TimeSizes :
          \E game \in TimeGames :
              LET mcts == MCTSNew(game, ensamble_size)
              IN  /\ roots = mcts.roots
                  /\ games = mcts.games
                  /\ iterations_per_s = mcts.iterations_per_s
                  /\ last = [op |-> "new", game |-> mcts.caller,
                             size |-> ensamble_size]
    /\ aborted = FALSE
    /\ requested = 0
    /\ TimeIdle
    /\ BoardIdle
    /\ PlayoutIdle
    /\ TwinIdle

\* advance_game after a call of search_time has returned, as a program
\* does that plays the move it has searched for
TimeAdvanceGame(game) ==
    /\ frame.pc = "idle"
    /\ last.op \in {"search_time", "search"}
    /\ AdvanceGame(game)

\* search right after a call of search_time has returned
TimeSearch(n_samples, c) ==
    /\ frame.pc = "idle"
    /\ last.op = "search_time"
    /\ Search(n_samples, c)

\* TimeCall that asks for no batch when the budget leaves no time
TimeCall_NoTimeNoBatch(budget, c) ==
    /\ ~aborted
    /\ frame.pc = "idle"
    /\ last.op \in {"new", "advance_game"}
    /\ ~frame.again
    /\ frame' = [frame EXCEPT
                    !.pc = "loop", !.budget = budget, !.c = c,
                    !.n_samples = IF budget <= 0 THEN 0
                                  ELSE batch_size(iterations_per_s, budget, 10),
                    !.samples_total = 0, !.time_spend = 0,
                    !.stalled = 0, !.batches = 0,
                    !.first = NoBatch, !.latest = NoBatch,
                    !.again = IsSome(frame.left)]
    /\ last' = [last EXCEPT !.op = "search_time"]
    /\ UNCHANGED <<roots, games, iterations_per_s, aborted, requested>>
    /\ UNCHANGED <<playout_vars, twin_vars, board_vars>>

\* let mut samples_total = 0; let t0 = time::now();
\* let mut n_samples = (self.iterations_per_s*budget_seconds)
\*                          .max(10.).min(100.) as usize;
TimeCall(budget, c) ==
    /\ ~aborted
    /\ frame.pc = "idle"
    /\ last.op \in {"new", "advance_game"}
    /\ ~frame.again
    /\ frame' = [frame EXCEPT
                    !.pc = "loop", !.budget = budget, !.c = c,
                    !.n_samples = batch_size(iterations_per_s, budget, 10),
                    !.samples_total = 0, !.time_spend = 0,
                    !.stalled = 0, !.batches = 0,
                    !.first = NoBatch, !.latest = NoBatch,
                    !.again = IsSome(frame.left)]
    /\ last' = [last EXCEPT !.op = "search_time"]
    /\ UNCHANGED <<roots, games, iterations_per_s, aborted, requested>>
    /\ UNCHANGED <<playout_vars, twin_vars, board_vars>>

\* one pass of `while n_samples >= 5`, the clock reading growing by d
TimeBatch(d) ==
    /\ frame.pc = "loop"
    /\ frame.n_samples >= 5
    /\ d = 0 => frame.stalled < MaxStalled
    /\ \E s \in search(roots, games, frame.n_samples, frame.c) :
          LET samples_total == frame.samples_total + frame.n_samples
              time_spend == frame.time_spend + d
              rate == measured_rate(samples_total, time_spend)
              time_left == frame.budget - time_spend
              batch == [n_samples |-> frame.n_samples,
                        rate |-> iterations_per_s,
                        millis |-> IF frame.batches = 0 THEN frame.budget
                                   ELSE frame.budget - frame.time_spend,
                        started |-> frame.time_spend]
          IN  /\ roots' = s.roots
              /\ games' = s.games
              /\ aborted' = ~s.ok
              /\ iterations_per_s' =
                    IF s.ok THEN rate ELSE iterations_per_s
              /\ frame' = [frame EXCEPT
                    !.pc = IF s.ok THEN "loop" ELSE "panic",
                    !.samples_total = samples_total,
                    !.time_spend = time_spend,
                    !.n_samples = batch_size(rate, time_left, 0),
                    !.stalled = IF d = 0 THEN frame.stalled + 1 ELSE 0,
                    !.batches = frame.batches + 1,
                    !.first = IF frame.batches = 0 THEN batch
                              ELSE frame.first,
                    !.latest = batch]
    /\ requested' = requested + frame.n_samples
    /\ UNCHANGED last
    /\ UNCHANGED <<playout_vars, twin_vars, board_vars>>

\* the loop condition fails and search_time returns
TimeReturn ==
    /\ frame.pc = "loop"
    /\ frame.n_samples < 5
    /\ frame' = [frame EXCEPT !.pc = "idle",
                              !.left = Some(iterations_per_s)]
    /\ UNCHANGED mcts_vars
    /\ UNCHANGED <<playout_vars, twin_vars, board_vars>>

TimeStep ==
    \/ \E d \in StepMillis : TimeBatch(d)
    \/ TimeReturn

TimeNext ==
    \/ \E game \in TimeGames : TimeAdvanceGame(game)
    \/ \E n_samples \in TimeSamples, c \in CValues :
          TimeSearch(n_samples, c)
    \/ \E budget \in TimeBudgets, c \in TimeCValues : TimeCall(budget, c)
    \/ TimeStep

\* a call that has started runs on: the loop is sequential code, and the
\* clock reading grows at the latest after MaxStalled batches
TimeSpec == TimeInit /\ [][TimeNext]_vars /\ WF_vars(TimeStep)

-----------------------------------------------------------------------------
(* The end-to-end scenario: an ensemble of two or more built on the state  *)
(* with sum 8 and searched with exploration constant 1.0.  The trees stay  *)
(* at a root and its three children, so the searches can run for hundreds  *)
(* of iterations.                                                          *)

\* most iterations a member of the scenario is searched for
MaxScenarioVisits == 250

\* sum of the state the scenario starts from: 3 + 5, 4 + 4 or 5 + 3
ScenarioSums == {8}

\* n_samples of the search calls of the scenario
ScenarioSamples == {1, 125}

ScenarioInit ==
    /\ \E ensamble_size \in 2..MaxEnsemble, sum \in ScenarioSums :
          LET game == [MiniGameNew EXCEPT !.sum = sum]
              mcts == MCTSNew(game, ensamble_size)
          IN  /\ roots = mcts.roots
              /\ games = mcts.games
              /\ iterations_per_s = mcts.iterations_per_s
              /\ last = [op |-> "new", game |-> mcts.caller,
                         size |-> ensamble_size]
    /\ aborted = FALSE
    /\ requested = 0
    /\ PlayoutIdle
    /\ TwinIdle
    /\ TimeIdle
    /\ BoardIdle

\* mcts.search(n_samples, 1.)
ScenarioSearch(n_samples) ==
    /\ ~aborted
    /\ requested + n_samples <= MaxScenarioVisits
    /\ n_samples = 1 => requested < 5
    /\ \E s \in search(roots, games, n_samples, 1) :
          /\ roots' = s.roots
          /\ games' = s.games
          /\ aborted' = ~s.ok
    /\ requested' = requested + n_samples
    /\ last' = [last EXCEPT !.op = "search"]
    /\ UNCHANGED iterations_per_s
    /\ UNCHANGED <<playout_vars, twin_vars, time_vars, board_vars>>

ScenarioNext ==
    \E n_samples \in ScenarioSamples : ScenarioSearch(n_samples)

ScenarioSpec == ScenarioInit /\ [][ScenarioNext]_vars

-----------------------------------------------------------------------------
(* Properties *)

Members == 1..Len(games)
NodeIds(e) == 1..Len(roots[e])
Root(e) == roots[e][1]

\* C1: search never mutates a member's stored game state: a step changes
\* `games` only if it is advance_game; search (and search_time, which calls
\* it) leaves every stored game as it was.
C1_SearchKeepsGames ==
    [][last'.op = "advance_game" \/ games' = games]_vars

\* a search has expanded both roots of an ensemble, its iterations having
\* applied moves to their clones, and the stored games are as built
C1_Witness ==
    /\ last.op = "search"
    /\ Len(games) = 2
    /\ requested >= 3
    /\ \A e \in Members :
          /\ Len(Root(e).children) >= 2
          /\ games[e] = set_rng_seed(last.game, e - 1)

\* C2: search(n_samples, c) runs exactly n_samples iterations on every
\* member: every root's n equals the samples requested since the last
\* new/advance_game, a search step adds exactly its n_samples to every
\* root's n, and with n_samples = 0 or no member nothing changes.
C2_SearchRunsAllSamples ==
    /\ [](\A e \in Members : Root(e).n = requested)
    /\ [][last'.op = "search" =>
            /\ \A e \in Members :
                  roots'[e][1].n = Root(e).n + (requested' - requested)
            /\ (requested' = requested \/ Len(games) = 0) =>
                  /\ roots' = roots
                  /\ games' = games
                  /\ iterations_per_s' = iterations_per_s]_vars

\* several searches have added up on both roots of an ensemble
C2_Witness ==
    /\ last.op = "search"
    /\ Len(games) = 2
    /\ requested >= 5
    /\ \A e \in Members : Root(e).n = requested

\* C3: node-state monotonicity: across any search or search_time step a
\* node that is FullyExpanded or LeafNode keeps its state (so a node's
\* state changes at most once, out of Expandable).
C3_StateMonotone ==
    [][last'.op # "advance_game" =>
          \A e \in 1..Len(roots) : \A id \in 1..Len(roots[e]) :
              /\ id <= Len(roots'[e])
              /\ roots[e][id].state # "Expandable" =>
                    roots'[e][id].state = roots[e][id].state]_vars

\* a tree holds a FullyExpanded root and a LeafNode, both visited again
\* after they left Expandable
C3_Witness ==
    \E e \in Members : \E id \in NodeIds(e) :
        /\ Root(e).state = "FullyExpanded"
        /\ Root(e).n >= 6
        /\ id > 1
        /\ roots[e][id].state = "LeafNode"
        /\ roots[e][id].n >= 3

\* C4: expansion distinctness: the children of any node carry pairwise
\* distinct actions.
C4_DistinctChildActions ==
    \A e \in Members : \A id \in NodeIds(e) :
        \A i, j \in 1..Len(roots[e][id].children) :
            i # j => roots[e][roots[e][id].children[i]].action
                        # roots[e][roots[e][id].children[j]].action

\* a root and one of its children have each been expanded to all three
\* actions
C4_Witness ==
    \E e \in Members : \E id \in NodeIds(e) :
        /\ id > 1
        /\ Len(Root(e).children) = 3
        /\ Len(roots[e][id].children) = 3

\* C5: no division by a zero visit count: every non-root node has n >= 1,
\* and so has every merged per-action count of best_action.
C5_ChildrenVisited ==
    /\ \A e \in Members : \A id \in NodeIds(e) :
          id > 1 => roots[e][id].n >= 1
    /\ \A action \in MergedActions(roots, games) :
          n_values(roots, games, action) >= 1

\* search_time has just created nodes that hold their first visit only
C5_Witness ==
    /\ last.op = "search_time"
    /\ \E e \in Members : \E id \in NodeIds(e) :
          /\ id > 1
          /\ roots[e][id].n = 1
          /\ Root(e).state = "FullyExpanded"

\* the values reward() takes
Rewards == {-1, 0, 1}

\* the nodes of tree u that are new or differ from tree t
Changed(t, u) == {id \in 1..Len(u) : id > Len(t) \/ u[id] # t[id]}

ChildSet(u, id) == {u[id].children[i] : i \in 1..Len(u[id].children)}

\* tree u is tree t after one visit of value delta along one path from the
\* root: the changed nodes are the root and, below each changed node, at
\* most one child; every old node on the path gained one visit and delta
\* and nothing else but, for the parent of a new node, that child; a new
\* node holds exactly that visit; the path ends in the new node or in a
\* childless node
PathUpdated(t, u, delta) ==
    LET changed == Changed(t, u)
    IN  /\ Len(u) \in {Len(t), Len(t) + 1}
        /\ 1 \in changed
        /\ \A id \in changed :
              /\ id = 1 \/ \E p \in changed : id \in ChildSet(u, p)
              /\ Cardinality(ChildSet(u, id) \cap changed) <= 1
              /\ ChildSet(u, id) \cap changed = {} =>
                    id > Len(t) \/ Len(u[id].children) = 0
              /\ IF id <= Len(t)
                 THEN /\ u[id].n = t[id].n + 1
                      /\ u[id].q = t[id].q + delta
                      /\ u[id].action = t[id].action
                      /\ \/ u[id].children = t[id].children
                         \/ /\ Len(u) = Len(t) + 1
                            /\ u[id].children = Append(t[id].children, Len(u))
                 ELSE /\ u[id].n = 1
                      /\ u[id].q = delta
                      /\ u[id].children = <<>>
                      /\ u[id].state = "Expandable"

\* C6: backpropagation along the descent path: a search of one sample
\* changes each tree by one iteration, which adds 1 to n and one and the
\* same delta to q of exactly the nodes on one root-to-node path, leaves
\* every other node unchanged, and leaves a new child with n = 1, q = delta.
C6_BackpropAlongPath ==
    [][(last'.op = "search" /\ requested' = requested + 1 /\ ~aborted') =>
          \A e \in 1..Len(roots) :
              \E delta \in Rewards : PathUpdated(roots[e], roots'[e], delta)]_vars

\* an iteration has gone through the root and a child and created a
\* grandchild, which holds its playout's value as its only visit
C6_Witness ==
    /\ last.op = "search"
    /\ \E e \in Members : \E p \in NodeIds(e) :
          /\ p > 1
          /\ Len(roots[e][p].children) >= 1
          /\ roots[e][p].children[Len(roots[e][p].children)] = Len(roots[e])
          /\ roots[e][Len(roots[e])].n = 1
          /\ roots[e][Len(roots[e])].q # 0
          /\ roots[e][p].n >= 2
          /\ Root(e).n >= 4

\* the actions a MiniGame move can carry
ActionUniverse == DRAW_MIN..(DRAW_MAX - 1)

\* the children of member e's root that carry `action`
RootChildrenFor(e, action) ==
    {id \in ChildSet(roots[e], 1) : roots[e][id].action = Some(action)}

MemberN(e, action) ==
    IF RootChildrenFor(e, action) = {} THEN 0
    ELSE roots[e][CHOOSE id \in RootChildrenFor(e, action) : TRUE].n

MemberQ(e, action) ==
    IF RootChildrenFor(e, action) = {} THEN 0
    ELSE roots[e][CHOOSE id \in RootChildrenFor(e, action) : TRUE].q

\* visits and value of `action` summed over the members 1..e
RECURSIVE MergedN(_, _)
MergedN(action, e) ==
    IF e = 0 THEN 0 ELSE MergedN(action, e - 1) + MemberN(e, action)

RECURSIVE MergedQ(_, _)
MergedQ(action, e) ==
    IF e = 0 THEN 0 ELSE MergedQ(action, e - 1) + MemberQ(e, action)

\* the actions that appear among some root's children
RootActions ==
    {action \in ActionUniverse :
        \E e \in Members : RootChildrenFor(e, action) # {}}

\* C7: best_action returns an action of maximal merged mean: the returned
\* action a appears among the roots' children and q_sum(a)/n_sum(a) >=
\* q_sum(b)/n_sum(b) for every action b that does, the sums running over
\* the children of all roots (a visit-weighted mean).
C7_BestActionMaximal ==
    \A r \in best_action(roots, games) :
        IsSome(r) =>
            /\ unwrap(r) \in RootActions
            /\ \A b \in RootActions :
                  /\ MergedN(b, Len(games)) >= 1
                  /\ MergedQ(unwrap(r), Len(games)) * MergedN(b, Len(games))
                        >= MergedQ(b, Len(games))
                              * MergedN(unwrap(r), Len(games))

\* two members hold different statistics for the returned action (their
\* own means differ, and so do their visit counts), and another action has
\* a strictly smaller merged mean
C7_Witness ==
    /\ Len(games) = 2
    /\ \E a, b \in RootActions :
          /\ best_action(roots, games) = {Some(a)}
          /\ MemberN(1, a) >= 1
          /\ MemberN(2, a) >= 1
          /\ MemberN(1, a) # MemberN(2, a)
          /\ MemberQ(1, a) * MemberN(2, a) # MemberQ(2, a) * MemberN(1, a)
          /\ MergedQ(a, 2) * MergedN(b, 2) > MergedQ(b, 2) * MergedN(a, 2)

\* C8: best_action returns no result exactly when no root has any child,
\* and some action whenever a root has a child.
C8_NoneIffNoChildren ==
    IF \A e \in Members : Len(Root(e).children) = 0
    THEN best_action(roots, games) = {None}
    ELSE \A r \in best_action(roots, games) : IsSome(r)

\* a terminal stored state has been searched: the roots are visited
\* leaves without children and best_action returns None
C8_Witness ==
    /\ last.op = "search"
    /\ Len(games) >= 1
    /\ \A e \in Members :
          /\ Len(allowed_actions(games[e])) = 0
          /\ Root(e).n >= 1
    /\ best_action(roots, games) = {None}

\* C9: best_action is a function of the ensemble statistics, also under
\* ties: the trees determine the action returned.
C9_BestActionDeterministic ==
    Cardinality(best_action(roots, games)) = 1

\* C10: advance_game forgets all search results and keeps the ensemble
\* size: afterwards every root is fresh, every stored game is the new state
\* seeded with its member index, and best_action returns no result; the
\* step leaves the number of members as it was.
C10_AdvanceGameResets ==
    /\ [](last.op = "advance_game" =>
            /\ Len(roots) = Len(games)
            /\ \A e \in Members :
                  /\ Len(roots[e]) = 1
                  /\ Root(e).action = None
                  /\ Root(e).children = <<>>
                  /\ Root(e).n = 0
                  /\ Root(e).q = 0
                  /\ Root(e).state = "Expandable"
                  /\ games[e] = [last.game EXCEPT !.seed = e - 1]
            /\ best_action(roots, games) = {None})
    /\ [][last'.op = "advance_game" =>
            /\ Len(roots') = Len(roots)
            /\ Len(games') = Len(games)]_vars

\* advance_game has rebuilt an ensemble of two that search_time had run on
C10_Witness ==
    /\ last.op = "advance_game"
    /\ Len(games) = 2
    /\ iterations_per_s # Rate(1, 1)
    /\ Len(allowed_actions(last.game)) > 0

\* the statistics tree_statistics() reports for the current ensemble
Stats == MCTS_tree_statistics(roots)

\* the ensemble has just been built by new or advance_game
JustBuilt == last.op \in {"new", "advance_game"}

RECURSIVE SubtreeSize(_, _)
SubtreeSize(t, id) ==
    LET RECURSIVE Below(_)
        Below(i) == IF i = 0 THEN 0
                    ELSE Below(i - 1) + SubtreeSize(t, t[id].children[i])
    IN  1 + Below(Len(t[id].children))

\* the node counts the children of id report, summed
ChildNodeSum(t, id) ==
    LET RECURSIVE Below(_)
        Below(i) == IF i = 0 THEN 0
                    ELSE Below(i - 1)
                         + tree_statistics(t, t[id].children[i]).nodes
    IN  Below(Len(t[id].children))

ChildMinDepths(t, id) ==
    {tree_statistics(t, ch).min_depth : ch \in ChildSet(t, id)}

ChildMaxDepths(t, id) ==
    {tree_statistics(t, ch).max_depth : ch \in ChildSet(t, id)}

\* C12: statistics algebra: tree_statistics of a childless node is
\* {1, 0, 0}; of a node with children it is {1 + the sum of the children's
\* node counts, 1 + the least of their min_depth, 1 + the greatest of their
\* max_depth}; and the node count is the number of nodes of the subtree.
C12_StatisticsAlgebra ==
    \A e \in Members : \A id \in NodeIds(e) :
        LET stats == tree_statistics(roots[e], id)
        IN  /\ IF Len(roots[e][id].children) = 0
               THEN stats = [nodes |-> 1, min_depth |-> 0, max_depth |-> 0]
               ELSE /\ stats.nodes = 1 + ChildNodeSum(roots[e], id)
                    /\ \E d \in ChildMinDepths(roots[e], id) :
                          /\ stats.min_depth = 1 + d
                          /\ \A o \in ChildMinDepths(roots[e], id) : d <= o
                    /\ \E d \in ChildMaxDepths(roots[e], id) :
                          /\ stats.max_depth = 1 + d
                          /\ \A o \in ChildMaxDepths(roots[e], id) : d >= o
            /\ stats.nodes = SubtreeSize(roots[e], id)

\* the depth of the subtree below id: the longest path down, in edges
RECURSIVE Depth(_, _)
Depth(t, id) ==
    IF Len(t[id].children) = 0 THEN 0
    ELSE LET ds == {Depth(t, ch) : ch \in ChildSet(t, id)}
         IN  1 + CHOOSE d \in ds : \A o \in ds : d >= o

\* the number of nodes of all trees of the ensemble
RECURSIVE TotalNodes(_)
TotalNodes(e) == IF e = 0 THEN 0 ELSE TotalNodes(e - 1) + Len(roots[e])

\* the depth of the deepest tree of the ensemble
EnsembleDepth ==
    LET ds == {Depth(roots[e], 1) : e \in Members}
    IN  CHOOSE d \in ds : \A o \in ds : d >= o

\* C13: MCTS::tree_statistics counts the ensemble as one more tree layer:
\* with at least one member the node count it reports is the number of
\* nodes of all trees plus one, and the depth the tree depth plus one.
C13_EnsembleLayer ==
    Len(games) >= 1 =>
        /\ Stats.nodes = TotalNodes(Len(games)) + 1
        /\ Stats.max_depth = EnsembleDepth + 1

\* q/n of node a is less than q/n of node b, both visited
MeanLess(t, a, b) == t[a].q * t[b].n < t[b].q * t[a].n

\* C14: greedy selection: on a node whose children all have n >= 1,
\* best_child(0) returns the child of maximal q/n, the first of them in
\* child-insertion order when several share the maximum; on a childless
\* node it returns no result.
C14_GreedySelection ==
    \A e \in Members : \A id \in NodeIds(e) :
        LET t == roots[e]
            ch == t[id].children
        IN  IF Len(ch) = 0
            THEN best_child(t, id, 0) = {None}
            ELSE (\A i \in 1..Len(ch) : t[ch[i]].n >= 1) =>
                    \E i \in 1..Len(ch) :
                        /\ best_child(t, id, 0) = {Some(ch[i])}
                        /\ \A j \in 1..Len(ch) : ~MeanLess(t, ch[i], ch[j])
                        /\ \A j \in 1..(i - 1) : MeanLess(t, ch[j], ch[i])

\* a root whose first child is worse than its second, the second and the
\* third sharing the best mean: the greedy choice is the second
C14_Witness ==
    \E e \in Members :
        LET t == roots[e]
            ch == t[1].children
        IN  /\ Len(ch) = 3
            /\ MeanLess(t, ch[1], ch[2])
            /\ ~MeanLess(t, ch[2], ch[3])
            /\ ~MeanLess(t, ch[3], ch[2])
            /\ best_child(t, 1, 0) = {Some(ch[2])}

\* the node whose child list holds id
Parent(t, id) == CHOOSE p \in 1..Len(t) : id \in ChildSet(t, p)

\* the game state an iteration holds when it stands on node id of member
\* e: the stored game after the moves on the path from the root
RECURSIVE NodeGame(_, _)
NodeGame(e, id) ==
    IF id = 1 THEN games[e]
    ELSE make_move(NodeGame(e, Parent(roots[e], id)),
                   unwrap(roots[e][id].action))

\* the legal actions of a game state, as a set
LegalActions(game) ==
    {allowed_actions(game)[i] : i \in 1..Len(allowed_actions(game))}

\* the actions the children of node id carry
ChildActions(t, id) == {unwrap(t[ch].action) : ch \in ChildSet(t, id)}

\* C15: between iterations a node is FullyExpanded if and only if its game
\* state has a legal action and its children carry exactly the legal
\* actions; an Expandable node of a non-terminal state has fewer children
\* than there are legal actions.
C15_FullyExpandedIffAllTried ==
    \A e \in Members : \A id \in NodeIds(e) :
        LET node == roots[e][id]
            legal == LegalActions(NodeGame(e, id))
        IN  /\ node.state = "FullyExpanded" <=>
                  (legal # {} /\ ChildActions(roots[e], id) = legal)
            /\ (node.state = "Expandable" /\ legal # {}) =>
                  Len(node.children) < Cardinality(legal)

\* one tree holds a FullyExpanded root, and below it a node that is still
\* Expandable with two of its three actions tried
C15_Witness ==
    \E e \in Members : \E id \in NodeIds(e) :
        /\ id > 1
        /\ Root(e).state = "FullyExpanded"
        /\ Len(Root(e).children) = 3
        /\ roots[e][id].state = "Expandable"
        /\ Len(roots[e][id].children) = 2

\* the game state on the path to node id has no legal action
Terminal(e, id) == Len(allowed_actions(NodeGame(e, id))) = 0

\* C16: a node becomes LeafNode exactly when an expansion attempt on it
\* finds no legal action: a LeafNode stands for a terminal state; a node of
\* a terminal state is Expandable only until its first visit after its
\* creation (a child is created with one visit, a root with none); and the
\* iteration that makes that visit turns it into LeafNode and backs up the
\* state's reward.
C16_LeafOnTerminalVisit ==
    /\ [](\A e \in Members : \A id \in NodeIds(e) :
            /\ roots[e][id].state = "LeafNode" => Terminal(e, id)
            /\ (Terminal(e, id) /\ roots[e][id].state = "Expandable") =>
                  roots[e][id].n = (IF id = 1 THEN 0 ELSE 1))
    /\ [][(last'.op = "search" /\ requested' = requested + 1) =>
            \A e \in Members : \A id \in NodeIds(e) :
                (/\ Terminal(e, id)
                 /\ roots[e][id].state = "Expandable"
                 /\ roots'[e][id].n = roots[e][id].n + 1) =>
                    /\ roots'[e][id].state = "LeafNode"
                    /\ roots'[e][id].q =
                          roots[e][id].q + reward(NodeGame(e, id))
                    /\ roots'[e][1].q =
                          roots[e][1].q + reward(NodeGame(e, id))]_vars

\* below a root, a node of a won state was created by one iteration and
\* turned into a LeafNode by the next one that came to it
C16_Witness ==
    \E e \in Members : \E id \in NodeIds(e) :
        /\ id > 1
        /\ roots[e][id].state = "LeafNode"
        /\ reward(NodeGame(e, id)) = 1
        /\ roots[e][id].n = 2
        /\ roots[e][id].q = 2

\* C17: LeafNode nodes never acquire children: a LeafNode has an empty
\* child list in every reachable tree, and an iteration that visits a
\* LeafNode changes nothing of it but n, which grows by 1, and q, which
\* grows by the reward of its state.
C17_LeafStaysChildless ==
    /\ [](\A e \in Members : \A id \in NodeIds(e) :
            roots[e][id].state = "LeafNode" => roots[e][id].children = <<>>)
    /\ [][(last'.op = "search" /\ requested' = requested + 1) =>
            \A e \in Members : \A id \in NodeIds(e) :
                (/\ roots[e][id].state = "LeafNode"
                 /\ roots'[e][id] # roots[e][id]) =>
                    roots'[e][id] =
                        [roots[e][id] EXCEPT
                            !.n = @ + 1,
                            !.q = @ + reward(NodeGame(e, id))]]_vars

\* a LeafNode of a lost state has been visited twice since it was
\* created and is still without children
C17_Witness ==
    \E e \in Members : \E id \in NodeIds(e) :
        /\ id > 1
        /\ roots[e][id].state = "LeafNode"
        /\ roots[e][id].children = <<>>
        /\ reward(NodeGame(e, id)) = -1
        /\ roots[e][id].n = 3
        /\ roots[e][id].q = -3

\* C18: playout terminates: a call returns after finitely many moves; the
\* state it returns has no allowed action and is one the set-valued playout
\* of the search yields; every move it applied was allowed in the state it
\* was applied to; and the state passed in is left as it was.
C18_PlayoutTerminates ==
    /\ <>(playout_pc = "return")
    /\ [](playout_pc = "return" =>
            /\ Len(allowed_actions(playout_game)) = 0
            /\ playout_game \in playout(playout_initial)
            /\ playout_initial = last.game)
    /\ [][/\ playout_initial' = playout_initial
          /\ playout_game' # playout_game =>
                \E a \in LegalActions(playout_game) :
                    playout_game' = make_move(playout_game, a)]_vars

\* a playout from MiniGame::new has returned after the longest game there
\* is, four moves
C18_Witness ==
    /\ playout_pc = "return"
    /\ playout_initial = MiniGameNew
    /\ playout_moves = 4
    /\ playout_game.sum > WINNING_SUM

\* one search call with the members' loops interleaved: `left[e]` passes
\* of member e's loop are still to run, and any member with passes left may
\* run its next one; a pass works on roots[e] and a clone of games[e] as
\* the loop body of search does
RECURSIVE search_interleaved(_, _, _, _)
search_interleaved(rts, gms, left, c) ==
    IF \A e \in 1..Len(gms) : left[e] = 0
    THEN {[roots |-> rts, games |-> gms, ok |-> TRUE]}
    ELSE UNION {
           UNION {IF s.ok
                  THEN search_interleaved([rts EXCEPT ![e] = s.root],
                                          [gms EXCEPT ![e] = s.game],
                                          [left EXCEPT ![e] = @ - 1], c)
                  ELSE {[roots |-> [rts EXCEPT ![e] = s.root],
                         games |-> [gms EXCEPT ![e] = s.game],
                         ok |-> FALSE]} :
                     s \in SearchSample(rts[e], gms[e], c)} :
           e \in {e \in 1..Len(gms) : left[e] > 0}}

\* what n_samples passes on member e alone can yield
MemberRuns(e, n_samples, c) ==
    SearchMember(roots[e], games[e], n_samples, c)

\* one result per member, chosen freely: the sequences f with f[e] a
\* result of member e alone
MemberChoices(n_samples, c) ==
    LET RECURSIVE UpTo(_)
        UpTo(e) == IF e = 0 THEN {<<>>}
                   ELSE {Append(f, m) : f \in UpTo(e - 1),
                                        m \in MemberRuns(e, n_samples, c)}
    IN  UpTo(Len(games))

\* the search calls on the current ensemble whose interleavings are
\* enumerated: those of at most MaxInterleaved iterations that leave no
\* root with more than MaxInterleaved visits
InterleavedCalls ==
    {n_samples \in 1..MaxSamples :
        /\ Len(games) * n_samples <= MaxInterleaved
        /\ requested + n_samples <= MaxInterleaved
        /\ requested + n_samples <= VisitCap(last.game, Len(games))}

\* C19: ensemble members are independent: what search yields is one
\* result per member, each a result of that member's loop run alone on its
\* own tree and a clone of its own game, in every combination and with the
\* stored games untouched; and running the members' loops interleaved
\* yields exactly the coordinator states the sequential search yields.
C19_MembersIndependent ==
    Len(games) >= 2 =>
        \A n_samples \in InterleavedCalls : \A c \in CValues :
            /\ search(roots, games, n_samples, c) =
                  {[roots |-> [e \in Members |-> f[e].root],
                    games |-> games, ok |-> TRUE] :
                       f \in MemberChoices(n_samples, c)}
            /\ search_interleaved(roots, games,
                                  [e \in Members |-> n_samples], c)
                  = search(roots, games, n_samples, c)

\* two members hold different trees, and a search of two samples on each
\* has several outcomes per member
C19_Witness ==
    /\ Len(games) = 2
    /\ last.op = "search"
    /\ roots[1] # roots[2]
    /\ 2 \in InterleavedCalls
    /\ Cardinality(MemberRuns(1, 2, 1)) >= 2
    /\ Cardinality(MemberRuns(2, 2, 1)) >= 2
    /\ Cardinality(search_interleaved(roots, games,
                                      [e \in Members |-> 2], 1)) >= 4

\* C20: construction: MCTS::new(state, N) creates exactly N (root, game)
\* pairs; member i holds a clone of state seeded with i, the seeds being
\* the distinct integers 0..N-1; every root is fresh; iterations_per_s is
\* 1.0; and the caller's state is as it was handed in, unseeded.
C20_Construction ==
    last.op = "new" =>
        /\ Len(roots) = last.size
        /\ Len(games) = last.size
        /\ \A e \in 1..last.size :
              /\ games[e] = [last.game EXCEPT !.seed = e - 1]
              /\ roots[e] = <<[action |-> None, children |-> <<>>,
                               state |-> "Expandable", n |-> 0, q |-> 0]>>
        /\ \A e, f \in 1..last.size : e # f => games[e].seed # games[f].seed
        /\ {games[e].seed : e \in Members} = 0..(last.size - 1)
        /\ iterations_per_s = Rate(1, 1)
        /\ last.game \in StartGames(last.size)

\* new has built an ensemble of two on a position in the middle of a game
C20_Witness ==
    /\ last.op = "new"
    /\ last.size = 2
    /\ last.game.sum \in DeepSums
    /\ games[1].seed = 0
    /\ games[2].seed = 1


\* C21: every Game implementation is fully deterministic: two equal game
\* states that were handed the same sequence of actions through make_move
\* are equal and have equal allowed_actions() and reward().  (The pair
\* starts equal and TwinMove hands both the same action.)
C21_GameDeterministic ==
    /\ twin_a = twin_b
    /\ TwoFortyEight_allowed_actions(twin_a) =
          TwoFortyEight_allowed_actions(twin_b)
    /\ TwoFortyEight_reward(twin_a) = TwoFortyEight_reward(twin_b)

\* C22: the rate estimate persists on the coordinator.  search and
\* advance_game leave iterations_per_s as it is: between calls of
\* search_time it is the 1. of MCTS::new before the first call and the
\* value the latest call left afterwards; and a call that has just been
\* entered has sized its first batch with the value the call before left.
C22_RatePersists ==
    /\ frame.pc = "idle" =>
          iterations_per_s =
              IF IsSome(frame.left) THEN unwrap(frame.left) ELSE Rate(1, 1)
    /\ (frame.pc = "loop" /\ frame.batches = 0) =>
          /\ iterations_per_s =
                IF IsSome(frame.left) THEN unwrap(frame.left) ELSE Rate(1, 1)
          /\ frame.n_samples = batch_size(iterations_per_s, frame.budget, 10)

\* a second call has just been entered after advance_game, and the 220/s
\* the first call measured give it a first batch of 100
C22_Witness ==
    /\ frame.pc = "loop"
    /\ frame.batches = 0
    /\ frame.again
    /\ requested = 0
    /\ last.op = "search_time"
    /\ frame.left = Some(Rate(220, 1))
    /\ frame.budget = 500
    /\ frame.n_samples = 100

\* clamp(rate * millis / 1000, lo, hi) cut to a whole number; an infinite
\* rate gives hi for a positive and lo for a negative time, and lo for
\* no time at all (inf * 0 is NaN, which max replaces by lo)
Clamped(rate, millis, lo, hi) ==
    IF IsInfinite(rate)
    THEN IF millis > 0 THEN hi ELSE lo
    ELSE IF rate[1] * millis < lo * rate[2] * 1000 THEN lo
    ELSE IF rate[1] * millis > hi * rate[2] * 1000 THEN hi
    ELSE (rate[1] * millis) \div (rate[2] * 1000)

\* C23: the first batch of a search_time call has
\* clamp(iterations_per_s * budget, 10, 100) samples; every later batch has
\* clamp(iterations_per_s * time_left, 0, 100) samples and is run only if
\* that is at least 5; so every batch that search was called with has 5 to
\* 100 samples, the first 10 to 100.
C23_BatchSizes ==
    /\ (frame.pc = "loop" /\ frame.batches = 0) =>
          frame.n_samples = Clamped(iterations_per_s, frame.budget, 10, 100)
    /\ (frame.pc = "loop" /\ frame.batches >= 1) =>
          frame.n_samples =
              Clamped(iterations_per_s, frame.budget - frame.time_spend,
                      0, 100)
    /\ frame.batches >= 1 =>
          /\ frame.first.n_samples =
                Clamped(frame.first.rate, frame.first.millis, 10, 100)
          /\ frame.first.n_samples \in 10..100
          /\ frame.first.millis = frame.budget
          /\ frame.latest.n_samples \in 5..100
    /\ frame.batches >= 2 =>
          frame.latest.n_samples =
              Clamped(frame.latest.rate, frame.latest.millis, 0, 100)
    /\ frame.batches = 1 => frame.latest = frame.first

\* a later batch of 15 samples: 50/s measured, 300 ms left
C23_Witness ==
    /\ frame.batches >= 2
    /\ frame.latest.n_samples = 15
    /\ frame.latest.rate = Rate(50, 1)
    /\ frame.latest.millis = 300

\* C24: a call of search_time returns after finitely many batches (the
\* clock reading grows at the latest after MaxStalled batches); with a
\* projected batch of fewer than 5 samples the call does nothing but
\* return; and no batch but the first is started once the measured time
\* has reached the budget.
C24_SearchTimeTerminates ==
    /\ (frame.pc = "loop") ~> (frame.pc = "idle")
    /\ [][(frame.pc = "loop" /\ frame.n_samples < 5) =>
              (frame'.pc = "idle" /\ roots' = roots)]_vars
    /\ [](frame.batches >= 2 => frame.latest.started < frame.budget)
    /\ []((frame.pc = "loop" /\ frame.batches >= 1
              /\ frame.time_spend >= frame.budget) => frame.n_samples < 5)

\* a call has returned after four batches, the last started 100 ms before
\* the budget ran out
C24_Witness ==
    /\ frame.pc = "idle"
    /\ IsSome(frame.left)
    /\ frame.batches = 4
    /\ frame.budget = 500
    /\ frame.latest.started = 400
    /\ frame.time_spend >= 600

\* a returned call of search_time(0.5, c) on an ensemble of two built by
\* MCTS::new, with no call of search_time before
FirstHalfSecondCall ==
    /\ frame.pc = "idle"
    /\ IsSome(frame.left)
    /\ ~frame.again
    /\ frame.budget = 500
    /\ Len(games) = 2
    /\ frame.first.rate = Rate(1, 1)

-----------------------------------------------------------------------------
(* The make_move calls of a search: searches on a single tree, and the     *)
(* playout that iteration starts on the state of a node it has just added, *)
(* run statement by statement.                                             *)

MoveInit ==
    /\ Init
    /\ Len(games) = 1

\* mcts.search(n_samples, c) while no playout is being followed
MoveSearch(n_samples, c) ==
    /\ playout_pc = "idle"
    /\ requested + n_samples <= MaxInterleaved
    /\ Search(n_samples, c)

\* playout(game) as iteration calls it after game.make_move(&child.action):
\* `game` is then the state of the child
MovePlayoutCall(e, id) ==
    /\ playout_pc = "idle"
    /\ id > 1
    /\ playout_initial' = NodeGame(e, id)
    /\ playout_game' = NodeGame(e, id)
    /\ playout_pc' = "call"
    /\ UNCHANGED <<playout_potential_moves, playout_moves>>
    /\ UNCHANGED <<mcts_vars, twin_vars, time_vars, board_vars>>

\* the call has returned and the search goes on
MovePlayoutDone ==
    /\ playout_pc = "return"
    /\ playout_pc' = "idle"
    /\ playout_initial' = MiniGameNew
    /\ playout_game' = MiniGameNew
    /\ playout_potential_moves' = <<>>
    /\ playout_moves' = 0
    /\ UNCHANGED <<mcts_vars, twin_vars, time_vars, board_vars>>

MoveNext ==
    \/ \E n_samples \in 1..MaxSamples, c \in CValues :
          MoveSearch(n_samples, c)
    \/ \E e \in Members : \E id \in NodeIds(e) : MovePlayoutCall(e, id)
    \/ PlayoutNext
    \/ MovePlayoutDone

MoveSpec == MoveInit /\ [][MoveNext]_vars

\* C28: the engine never makes an illegal move.  Every action that the
\* next iteration on a member hands to make_move (the action of the child
\* best_child chose, the action of the child expand added) is one of the
\* allowed actions of the game state at that moment, and so is every move
\* a playout applies.
C28_OnlyLegalMoves ==
    /\ [](\A e \in Members : \A c \in CValues :
             \A r \in iteration(roots[e], 1, clone(games[e]), c) : r.legal)
    /\ [][playout_moves' = playout_moves + 1 =>
             IsAllowed(playout_game, playout_game'.sum - playout_game.sum)]_vars

\* the fourth iteration from sum 5 went through a child best_child chose
\* and added a grandchild, and a playout from a state with sum 8 has made
\* one move
C28_Witness ==
    /\ last.game.sum = 5
    /\ requested = 4
    /\ Len(roots[1]) = 5
    /\ Root(1).state = "FullyExpanded"
    /\ playout_pc = "return"
    /\ playout_initial.sum = 8
    /\ playout_moves = 1

\* C29: no fatal abort is reachable during search.  No call has panicked;
\* every FullyExpanded node has a child and best_child returns Some on it;
\* every node but the root carries Some action and the root None; and an
\* Expandable node of a non-terminal state has an untried allowed action
\* left, so that expand never calls choose_random on an empty vector.
C29_NoAbort ==
    /\ ~aborted
    /\ \A e \in Members : \A id \in NodeIds(e) :
          LET t == roots[e]
              node == t[id]
              child_actions ==
                  [i \in 1..Len(node.children) |-> t[node.children[i]].action]
          IN  /\ node.state = "FullyExpanded" =>
                    /\ Len(node.children) >= 1
                    /\ \A c \in CValues :
                          \A b \in best_child(t, id, c) : IsSome(b)
              /\ IsSome(node.action) <=> id # 1
              /\ (node.state = "Expandable" /\ ~Terminal(e, id)) =>
                    /\ \A i \in 1..Len(child_actions) :
                          IsSome(child_actions[i])
                    /\ Len(untried_actions(
                              allowed_actions(NodeGame(e, id)),
                              child_actions)) >= 1

\* three iterations have gone through the FullyExpanded root into one of
\* its children, whose third expansion has made it FullyExpanded as well
C29_Witness ==
    /\ ~aborted
    /\ last.op = "search"
    /\ requested = 6
    /\ \E e \in Members : \E id \in NodeIds(e) :
          /\ id # 1
          /\ Root(e).state = "FullyExpanded"
          /\ Root(e).n = 6
          /\ roots[e][id].state = "FullyExpanded"
          /\ roots[e][id].n = 4

RECURSIVE SeqSum(_)
SeqSum(s) == IF Len(s) = 0 THEN 0 ELSE Head(s) + SeqSum(Tail(s))

\* the visits and the values of the children of node id, added up
ChildrenN(t, id) ==
    SeqSum([i \in 1..Len(t[id].children) |-> t[t[id].children[i]].n])
ChildrenQ(t, id) ==
    SeqSum([i \in 1..Len(t[id].children) |-> t[t[id].children[i]].q])

\* C30: between iterations, a root of a non-terminal state has n and q
\* equal to the sums of its children's n and q; every other node of a
\* non-terminal state has n = 1 + the sum of its children's n; a node of a
\* terminal state has no children, and n counts its visits (for a root:
\* the iterations asked for since it was built; for another node: its
\* share of its parent's equation, each visit backing up the state's
\* reward).
C30_VisitConservation ==
    \A e \in Members :
        /\ Root(e).n = requested
        /\ \A id \in NodeIds(e) :
              LET t == roots[e]
                  node == t[id]
              IN  /\ (id = 1 /\ ~Terminal(e, id)) =>
                        /\ node.n = ChildrenN(t, id)
                        /\ node.q = ChildrenQ(t, id)
                  /\ (id # 1 /\ ~Terminal(e, id)) =>
                        node.n = 1 + ChildrenN(t, id)
                  /\ Terminal(e, id) =>
                        /\ Len(node.children) = 0
                        /\ node.q = node.n * reward(NodeGame(e, id))

\* six iterations from sum 8: the root's visits are shared out among its
\* three children, all of them finished games, one of them visited three
\* times or more
C30_Witness ==
    /\ last.game.sum = 8
    /\ requested = 6
    /\ \E e \in Members :
          /\ Len(roots[e]) = 4
          /\ Root(e).n = 6
          /\ \E id \in NodeIds(e) :
                /\ id # 1
                /\ roots[e][id].state = "LeafNode"
                /\ roots[e][id].n >= 3

\* the node an iteration that turned tree t into tree u ended its descent
\* on: the node of t it visited none of whose children in t it visited
DescentEnd(t, u) ==
    CHOOSE id \in 1..Len(t) :
        /\ id \in Changed(t, u)
        /\ ChildSet(t, id) \cap Changed(t, u) = {}

\* C31: tree growth is bounded.  An iteration adds one node to its tree
\* when its descent ends on an Expandable node of a non-terminal state and
\* none otherwise; a tree never has more than 1 + root.n nodes; and no node
\* has more children than its game state has legal actions.
C31_TreeGrowthBounded ==
    /\ [](\A e \in Members :
            /\ Len(roots[e]) <= 1 + Root(e).n
            /\ \A id \in NodeIds(e) :
                  Len(roots[e][id].children) <=
                      Cardinality(LegalActions(NodeGame(e, id))))
    /\ [][(last'.op = "search" /\ requested' = requested + 1 /\ ~aborted') =>
            \A e \in Members :
                LET end == DescentEnd(roots[e], roots'[e])
                    grows == /\ roots[e][end].state = "Expandable"
                             /\ ~Terminal(e, end)
                IN  Len(roots'[e]) =
                        Len(roots[e]) + (IF grows THEN 1 ELSE 0)]_vars

\* three iterations have added a node each, a later one has added none,
\* and a node holds a child for each of the legal actions of its state
C31_Witness ==
    /\ last.op = "search"
    /\ \E e \in Members :
          /\ Len(roots[e]) >= 4
          /\ Len(roots[e]) < 1 + Root(e).n
          /\ \E id \in NodeIds(e) :
                /\ Len(roots[e][id].children) >= 2
                /\ Len(roots[e][id].children) =
                       Cardinality(LegalActions(NodeGame(e, id)))

-----------------------------------------------------------------------------
(* The driver loop of the binaries: search, best_action, then either       *)
(* make_move and advance_game or break.  The real game of the driver is    *)
(* last.game; it starts as MiniGame::new.                                  *)

\* search is called on a position while its roots hold fewer visits
MaxDriverVisits == 2

\* ensemble sizes and batch sizes the driver is run with
DriverSizes == {1, 2}
DriverSamples == {1, 2}

\* let mut game = MiniGame::new(); let mut mcts = MCTS::new(&game, size);
DriverInit ==
    \E ensamble_size \in DriverSizes :
        LET mcts == MCTSNew(MiniGameNew, ensamble_size)
        IN  /\ roots = mcts.roots
            /\ games = mcts.games
            /\ iterations_per_s = mcts.iterations_per_s
            /\ aborted = FALSE
            /\ requested = 0
            /\ last = [op |-> "new", game |-> mcts.caller,
                       size |-> ensamble_size]
            /\ PlayoutIdle
            /\ TwinIdle
            /\ TimeIdle
            /\ BoardIdle

\* mcts.search(n_samples, 1.), once or again for the same position
DriverSearch(n_samples) ==
    /\ last.op \in {"new", "advance_game", "search"}
    /\ requested + n_samples <= MaxDriverVisits
    /\ Search(n_samples, 1)

\* Some(action) => { game.make_move(&action); mcts.advance_game(&game); }
DriverMove ==
    /\ last.op = "search"
    /\ \E action \in best_action(roots, games) :
          /\ IsSome(action)
          /\ AdvanceGame(make_move(last.game, unwrap(action)))

\* None => break
DriverBreak ==
    /\ last.op = "search"
    /\ ~aborted
    /\ None \in best_action(roots, games)
    /\ last' = [last EXCEPT !.op = "break"]
    /\ UNCHANGED <<roots, games, iterations_per_s, aborted, requested>>
    /\ UNCHANGED <<playout_vars, twin_vars, time_vars, board_vars>>

DriverNext ==
    \/ \E n_samples \in DriverSamples : DriverSearch(n_samples)
    \/ DriverMove
    \/ DriverBreak

DriverSpec == DriverInit /\ [][DriverNext]_vars

C33_NoTimeNoBatch ==
    (last.op = "search_time" /\ frame.budget <= 0) =>
        /\ frame.batches = 0
        /\ requested = 0

\* C33, amended: a call of search_time with a budget of zero or less, on a
\* coordinator fresh from new or advance_game, asks for a first batch of 10
\* samples, runs it on every member, then asks for 0 samples and returns
\* with that single batch run.
C33_NoTimeOneBatch ==
    /\ []((last.op = "search_time" /\ frame.budget <= 0) =>
            \/ /\ frame.pc = "loop"
               /\ frame.batches = 0
               /\ frame.n_samples = 10
               /\ requested = 0
            \/ /\ frame.pc \in {"loop", "idle"}
               /\ frame.batches = 1
               /\ frame.first.n_samples = 10
               /\ frame.n_samples = 0
               /\ requested = 10
               /\ \A e \in Members : Root(e).n = 10)
    /\ (frame.pc = "loop" /\ frame.budget <= 0) ~>
            (frame.pc = "idle" /\ frame.batches = 1)

\* a call with a negative budget has returned after its batch of 10
\* iterations on each of the two roots
C33_Witness ==
    /\ last.op = "search_time"
    /\ frame.pc = "idle"
    /\ frame.budget < 0
    /\ frame.batches = 1
    /\ Len(roots) = 2
    /\ \A e \in Members : Root(e).n = 10

-----------------------------------------------------------------------------
(* The engine on the plain 2048 game: playout, expand, iteration and       *)
(* search of src/src/mcts.rs with G = TwoFortyEight, whose make_move       *)
(* returns one game per tile random_spawn can fill, or a panic.            *)

\* the action is one of game.allowed_actions()
TwoFortyEight_IsAllowed(game, action) ==
    \E i \in 1..Len(TwoFortyEight_allowed_actions(game)) :
        TwoFortyEight_allowed_actions(game)[i] = action

\* playout::<TwoFortyEight, Action>: the games random play and random
\* spawns can end in
RECURSIVE TwoFortyEight_playout(_)
TwoFortyEight_playout(initial) ==
    LET game == clone(initial)
        potential_moves == TwoFortyEight_allowed_actions(game)
    IN  IF Len(potential_moves) > 0
        THEN UNION {UNION {IF m.ok THEN TwoFortyEight_playout(m.game)
                           ELSE {m} :
                              m \in TwoFortyEight_make_move(game, action)} :
                       action \in choose_random(potential_moves)}
        ELSE {[ok |-> TRUE, game |-> game]}

\* TreeNode::expand::<TwoFortyEight>
TwoFortyEight_expand(t, id, game) ==
    LET allowed == TwoFortyEight_allowed_actions(game)
        ch == t[id].children
        child_actions == [i \in 1..Len(ch) |-> t[ch[i]].action]
        candidate_actions == untried_actions(allowed, child_actions)
        new == Len(t) + 1
    IN  IF Len(allowed) = 0
        THEN {[tree |-> MarkLeaf(t, id), child |-> None, ok |-> TRUE]}
        ELSE IF \/ \E i \in 1..Len(ch) : ~IsSome(child_actions[i])
                \/ Len(candidate_actions) = 0
        THEN {[tree |-> t, child |-> None, ok |-> FALSE]}
        ELSE {[tree |-> Append(
                   [t EXCEPT ![id].state =
                                 IF Len(candidate_actions) = 1
                                 THEN "FullyExpanded" ELSE @,
                             ![id].children = Append(@, new)],
                   TreeNodeNew(Some(action))),
               child |-> Some(new), ok |-> TRUE] :
                  action \in choose_random(candidate_actions)}

\* outcome of a call that hit the panic `panic`
TwoFortyEight_Panic(t, game, panic) ==
    [tree |-> t, game |-> game, delta |-> 0, ok |-> FALSE, panic |-> panic]

\* TreeNode::iteration::<TwoFortyEight> on node `id`: every (tree,
\* mutated game, delta), or the panic the call ends in
RECURSIVE TwoFortyEight_iteration(_, _, _, _)
TwoFortyEight_iteration(t, id, game, c) ==
    LET self == t[id]
        inner ==
            CASE self.state = "LeafNode" ->
                   {[tree |-> t, game |-> game,
                     delta |-> TwoFortyEight_reward(game),
                     ok |-> TRUE, panic |-> "none"]}
              [] self.state = "FullyExpanded" ->
                   UNION {IF ~IsSome(b) \/ ~IsSome(t[unwrap(b)].action)
                          THEN {TwoFortyEight_Panic(t, game, "unwrap")}
                          ELSE LET action == unwrap(t[unwrap(b)].action)
                               IN  UNION {
                                     IF ~m.ok
                                     THEN {TwoFortyEight_Panic(t, game,
                                               "Illegal move")}
                                     ELSE TwoFortyEight_iteration(
                                              t, unwrap(b), m.game, c) :
                                        m \in TwoFortyEight_make_move(
                                                  game, action)} :
                             b \in best_child(t, id, c)}
              [] self.state = "Expandable" ->
                   UNION {IF ~e.ok
                          THEN {TwoFortyEight_Panic(e.tree, game,
                                                    "choose_random")}
                          ELSE IF ~IsSome(e.child)
                          THEN {[tree |-> e.tree, game |-> game,
                                 delta |-> TwoFortyEight_reward(game),
                                 ok |-> TRUE, panic |-> "none"]}
                          ELSE LET child == unwrap(e.child)
                                   action == unwrap(e.tree[child].action)
                               IN  UNION {
                                     IF ~m.ok
                                     THEN {TwoFortyEight_Panic(e.tree, game,
                                               "Illegal move")}
                                     ELSE {[tree |-> RecordPlayout(
                                                e.tree, child,
                                                TwoFortyEight_reward(p.game)),
                                            game |-> m.game,
                                            delta |->
                                                TwoFortyEight_reward(p.game),
                                            ok |-> TRUE, panic |-> "none"] :
                                              p \in TwoFortyEight_playout(
                                                        m.game)} :
                                        m \in TwoFortyEight_make_move(
                                                  game, action)} :
                             e \in TwoFortyEight_expand(t, id, game)}
    IN  {IF r.ok THEN [r EXCEPT !.tree = AddVisit(r.tree, id, r.delta)]
         ELSE r : r \in inner}

\* one pass of the inner loop of MCTS::search on a TwoFortyEight member
TwoFortyEight_SearchSample(root, game, c) ==
    {[root |-> r.tree, ok |-> r.ok, panic |-> r.panic] :
        r \in TwoFortyEight_iteration(root, 1, clone(game), c)}

\* the loops of MCTS::search from sample k of member e on; a panic ends
\* the call
RECURSIVE TwoFortyEight_SearchFrom(_, _, _, _, _, _)
TwoFortyEight_SearchFrom(rts, gms, e, k, n_samples, c) ==
    IF e > Len(gms)
    THEN {[roots |-> rts, ok |-> TRUE, panic |-> "none"]}
    ELSE IF k > n_samples
    THEN TwoFortyEight_SearchFrom(rts, gms, e + 1, 1, n_samples, c)
    ELSE UNION {IF s.ok
                THEN TwoFortyEight_SearchFrom([rts EXCEPT ![e] = s.root],
                                              gms, e, k + 1, n_samples, c)
                ELSE {[roots |-> [rts EXCEPT ![e] = s.root],
                       ok |-> FALSE, panic |-> s.panic]} :
                   s \in TwoFortyEight_SearchSample(rts[e], gms[e], c)}

\* MCTS::<TwoFortyEight, Action>::search
TwoFortyEight_search(rts, gms, n_samples, c) ==
    TwoFortyEight_SearchFrom(rts, gms, 1, 1, n_samples, c)

-----------------------------------------------------------------------------
(* search on one tree over a plain 2048 game late in play: fourteen tiles  *)
(* that cannot merge with one another and two empty tiles in a corner.     *)

\* search is only taken while the root holds fewer visits
Max2048Visits == 6

\* the tiles of the late boards, idx 2 on; idx 0 and 1 are empty
LateTiles ==
    <<4, 8, 16, 32, 64, 128, 256, 512, 1024, 2048, 4096, 8192, 16384, 32768>>

\* the boards handed to MCTS::new, and the score the game has reached
LateGames ==
    {[score |-> 0, board |-> <<0, 0>> \o LateTiles]}

\* n_samples of the search calls
LateSamples == {1, 2}

\* let mut mcts = MCTS::new(&game, 1) on a game with legal moves
Search2048Init ==
    /\ \E game \in LateGames :
          /\ Len(TwoFortyEight_allowed_actions(game)) > 0
          /\ roots = <<TreeNew>>
          /\ games = <<clone(game)>>
          /\ last = [op |-> "new", game |-> game, size |-> 1,
                     panic |-> "none"]
    /\ iterations_per_s = Rate(1, 1)
    /\ aborted = FALSE
    /\ requested = 0
    /\ PlayoutIdle
    /\ TwinIdle
    /\ TimeIdle
    /\ BoardIdle

\* mcts.search(n_samples, 1.)
Search2048(n_samples) ==
    /\ ~aborted
    /\ requested + n_samples <= Max2048Visits
    /\ \E s \in TwoFortyEight_search(roots, games, n_samples, 1) :
          /\ roots' = s.roots
          /\ aborted' = ~s.ok
          /\ last' = [last EXCEPT !.op = "search", !.panic = s.panic]
    /\ requested' = requested + n_samples
    /\ UNCHANGED <<games, iterations_per_s>>
    /\ UNCHANGED <<playout_vars, twin_vars, time_vars, board_vars>>

Search2048Next == \E n_samples \in LateSamples : Search2048(n_samples)

Search2048Spec == Search2048Init /\ [][Search2048Next]_vars

\* C34: search over the plain 2048 game never aborts: from a board with
\* legal moves no iteration hands make_move an action that is illegal in
\* the cloned state it has reached, and expand never finds its list of
\* untried candidates empty.
C34_Search2048NeverAborts ==
    /\ ~aborted
    /\ last.panic \notin {"Illegal move", "choose_random"}

-----------------------------------------------------------------------------
(* merge_vec of twofortyeight.rs and of adv2048.rs, called on one line *)

\* the longest line handed to merge_vec
MaxLineLen == 4

\* the tiles of the lines: an empty tile, the two smallest tiles of a game
\* and the largest power of two a u16 holds
LineTiles == {0, 2, 4, 32768}

Lines == UNION {[1..k -> LineTiles] : k \in 0..MaxLineLen}

\* no coordinator has been built
NoEngine ==
    /\ roots = <<>>
    /\ games = <<>>
    /\ iterations_per_s = Rate(1, 1)
    /\ aborted = FALSE
    /\ requested = 0
    /\ last = [op |-> "none", game |-> MiniGameNew, size |-> 0]

LineInit ==
    /\ merge_in \in Lines
    /\ merge_out = NoMerge
    /\ adv = Adversarial2048_empty
    /\ adv_panic = "none"
    /\ NoEngine
    /\ PlayoutIdle
    /\ TwinIdle
    /\ TimeIdle

\* TwoFortyEight::merge_vec(&vec) and Adversarial2048::merge_vec(&vec)
MergeLine ==
    /\ ~merge_out.called
    /\ merge_out' = [called |-> TRUE,
                     tfe |-> merge_vec(merge_in),
                     adv |-> Adversarial2048_merge_vec(merge_in)]
    /\ UNCHANGED <<adv, adv_panic, merge_in>>
    /\ UNCHANGED <<mcts_vars, playout_vars, twin_vars, time_vars>>

LineNext == MergeLine

LineSpec == LineInit /\ [][LineNext]_vars

\* the 2048 rule for a line without empty tiles: from the left, two equal
\* neighbours become one tile of twice the value, which takes no part in
\* another merge
RECURSIVE LineRule(_)
LineRule(tiles) ==
    IF Len(tiles) <= 1 THEN tiles
    ELSE IF tiles[1] = tiles[2]
    THEN <<2 * tiles[1]>> \o LineRule(SubSeq(tiles, 3, Len(tiles)))
    ELSE <<tiles[1]>> \o LineRule(Tail(tiles))

\* the tiles the rule creates by merges, added up
RECURSIVE LineRulePoints(_)
LineRulePoints(tiles) ==
    IF Len(tiles) <= 1 THEN 0
    ELSE IF tiles[1] = tiles[2]
    THEN 2 * tiles[1] + LineRulePoints(SubSeq(tiles, 3, Len(tiles)))
    ELSE LineRulePoints(Tail(tiles))

\* C37: merge_vec implements the 2048 line rule for every input line, in
\* both games: it returns, the output has the length of the input, its
\* non-zero tiles come first, the sum of the tiles is kept, the non-zero
\* tiles are those the rule gives for the non-zero tiles of the input,
\* points is the sum of the tiles created by merges, [2,2,2,0] gives
\* [4,2,0,0] and [2,0,4,4] gives [2,8,0,0].
C37_MergeVecLineRule ==
    merge_out.called =>
        \A r \in {merge_out.tfe, merge_out.adv} :
            LET tiles == SelectSeq(merge_in, LAMBDA t : t > 0)
            IN  /\ ~r.overflow
                /\ Len(r.merged) = Len(merge_in)
                /\ \A i, j \in 1..Len(r.merged) :
                      (i < j /\ r.merged[i] = 0) => r.merged[j] = 0
                /\ SeqSum(r.merged) = SeqSum(merge_in)
                /\ SelectSeq(r.merged, LAMBDA t : t > 0) = LineRule(tiles)
                /\ r.points = LineRulePoints(tiles)
                /\ merge_in = <<2, 2, 2, 0>> => r.merged = <<4, 2, 0, 0>>
                /\ merge_in = <<2, 0, 4, 4>> => r.merged = <<2, 8, 0, 0>>

-----------------------------------------------------------------------------
(* An Adversarial2048 game handed the moves the engine and the driver of   *)
(* src/src/bin/adv2048.rs hand it: allowed actions through make_move, and  *)
(* random_spawn after a player action.                                     *)

\* make_move is handed a player action while the game has counted fewer
MaxAdvMoves == 1

\* the first four tiles of the late boards: two empty tiles; a full board
\* with a pair to merge; a full board without any
LateRows == {<<0, 0, 2, 8>>, <<2, 2, 4, 8>>, <<2, 1024, 4, 8>>}

\* games late in play, after a spawn: last_action names the idx of the 2
\* the spawn has placed
LateAdvGames ==
    {[board |-> row \o SubSeq(LateTiles, 3, Len(LateTiles)),
      last_action |->
          Some(SpawnAction(IF row[1] = 2 THEN 0 ELSE 2)),
      score |-> 0, moves |-> 0] : row \in LateRows}

\* Adversarial2048::new with the two tiles on StartTiles,
\* Adversarial2048::empty, and the late games
AdvStarts ==
    {game \in Adversarial2048_new :
        \A idx \in 1..(WIDTH * HEIGHT) :
            game.board[idx] # 0 => idx \in StartTiles}
    \cup {Adversarial2048_empty} \cup LateAdvGames

AdvInit ==
    /\ adv \in AdvStarts
    /\ adv_panic = "none"
    /\ merge_in = <<>>
    /\ merge_out = NoMerge
    /\ NoEngine
    /\ PlayoutIdle
    /\ TwinIdle
    /\ TimeIdle

\* game.make_move(&action) with one of game.allowed_actions()
AdvMakeMove(action) ==
    /\ adv_panic = "none"
    /\ action.kind = "PlayerAction" => adv.moves < MaxAdvMoves
    /\ LET done == Adversarial2048_make_move(adv, action)
       IN  /\ adv' = done.game
           /\ adv_panic' = IF done.ok THEN "none"
                           ELSE IF action.kind = "PlayerAction"
                           THEN "Illegal move"
                           ELSE "assert board[idx] == 0"
    /\ UNCHANGED <<merge_in, merge_out>>
    /\ UNCHANGED <<mcts_vars, playout_vars, twin_vars, time_vars>>

\* game.random_spawn() of the driver, right after its make_move
AdvRandomSpawn ==
    /\ adv_panic = "none"
    /\ IsSome(adv.last_action)
    /\ unwrap(adv.last_action).kind = "PlayerAction"
    /\ \E spawned \in Adversarial2048_random_spawn(adv) :
          /\ adv' = spawned.game
          /\ adv_panic' = IF spawned.ok THEN "none"
                          ELSE "assert !board_full"
    /\ UNCHANGED <<merge_in, merge_out>>
    /\ UNCHANGED <<mcts_vars, playout_vars, twin_vars, time_vars>>

AdvNext ==
    \/ \E i \in 1..Len(Adversarial2048_allowed_actions(adv)) :
          AdvMakeMove(Adversarial2048_allowed_actions(adv)[i])
    \/ AdvRandomSpawn

AdvSpec == AdvInit /\ [][AdvNext]_vars

\* it is the player's turn: the game is at its start or a spawn was last
PlayersTurn ==
    ~IsSome(adv.last_action) \/ unwrap(adv.last_action).kind = "SpawnAction"

\* the line of tiles shift_and_merge hands to merge_vec for `outer`
BoardLine(board, direction, outer) ==
    [i \in 1..HEIGHT |->
        board[Strides(direction)[1] + outer * Strides(direction)[2]
              + (i - 1) * Strides(direction)[3] + 1]]

\* C35: in Adversarial2048 a direction is an allowed player action only if
\* shifting in that direction changes the board: for every line of the
\* board merge_vec reports changed exactly when the merged line differs
\* from the line, and returns what TwoFortyEight::merge_vec returns.
C35_AllowedOnlyIfChanged ==
    PlayersTurn =>
        \A d \in 1..Len(Directions) :
            LET direction == Directions[d]
                shifted == Adversarial2048_shift_and_merge(adv.board,
                                                           direction)
            IN  /\ IsSome(shifted.points) => shifted.board # adv.board
                /\ \A outer \in 0..(HEIGHT - 1) :
                      LET l == BoardLine(adv.board, direction, outer)
                      IN  /\ Adversarial2048_merge_vec(l).changed <=>
                                Adversarial2048_merge_vec(l).merged # l
                          /\ Adversarial2048_merge_vec(l) = merge_vec(l)

\* C36: Adversarial2048 alternates player and spawn moves safely.  No
\* assertion and no expect fails; on the player's turn allowed_actions()
\* holds player actions only; after a player action it holds spawn
\* actions only, each on an empty tile, and at least one, the board not
\* being full; a state without allowed actions is one of the player's
\* turn; and every player action leaves a board that is not full.
C36_AlternationSafe ==
    /\ [](LET acts == Adversarial2048_allowed_actions(adv)
          IN  /\ adv_panic = "none"
              /\ PlayersTurn =>
                    \A i \in 1..Len(acts) : acts[i].kind = "PlayerAction"
              /\ ~PlayersTurn =>
                    /\ \A i \in 1..Len(acts) :
                          /\ acts[i].kind = "SpawnAction"
                          /\ adv.board[acts[i].position + 1] = 0
                    /\ Len(acts) >= 1
                    /\ ~Adversarial2048_board_full(adv)
              /\ Len(acts) = 0 => PlayersTurn)
    /\ [][adv'.moves = adv.moves + 1 =>
            ~Adversarial2048_board_full(adv')]_vars

\* on a full board the player has merged the only pair; one tile is empty
\* and it is the spawn's turn
C36_Witness ==
    /\ ~PlayersTurn
    /\ adv.moves = 1
    /\ adv.score = 4
    /\ Len(allowed_spawn_actions(adv)) = 1
    /\ Len(Adversarial2048_allowed_actions(adv)) = 1
    /\ adv_panic = "none"


=============================================================================
